---- MODULE Spec2Model ----
(***************************************************************************)
(* A model of wslog (zc2638/wslog): the text log handler (logHandler) with *)
(* its forked attribute buffers and shared sink mutex, the multi-handler   *)
(* fan-out (multiHandler), the level registry (RegisterLevel, ParseLevel,   *)
(* SLevel.Level), the attribute flattener (addAttrs) and the key           *)
(* colouring pass (convertToColorKey).                                     *)
(*                                                                         *)
(* Bytes are sequences of one-character strings.  Objects live in heaps    *)
(* (sequences indexed by object id); id 0 is nil.                          *)
(***************************************************************************)
EXTENDS Integers, Sequences, FiniteSets, TLC

VARIABLES
    handlers,   \* heap of logHandler objects
    arrays,     \* heap of backing arrays of the handlers' attrBuffer
    mutexes,    \* heap of sync.Mutex objects: id of the holding thread, 0 if free
    sinks,      \* heap of io.Writer sinks: the Write calls received and the byte stream
    thr,        \* per thread: position inside logHandler.Handle and its locals
    backends,   \* heap of the back ends wrapped by multiHandlers
    multis,     \* heap of multiHandler objects
    mcall,      \* the last multiHandler call and what it returned
    levelSet,   \* the level registry map
    levelMux,   \* the registry mutex: id of the holding thread, 0 if free
    lastReg,    \* per name, the level of the latest RegisterLevel call that took levelMux
    lthr,       \* per thread: position inside RegisterLevel / ParseLevel / SLevel.Level
    flat,       \* the last addAttrs call on a fresh buffer: its arguments and the bytes written
    color,      \* the last convertToColorKey call: its arguments and its outcome
    built,      \* the last call of New: its arguments and the handler of the Logger returned
    logger      \* a Logger over a Handler: its position inside log and the calls it made

vars == <<handlers, arrays, mutexes, sinks, thr, backends, multis, mcall,
          levelSet, levelMux, lastReg, lthr, flat, color, built, logger>>

hvars == <<handlers, arrays, mutexes, sinks, thr>>
mvars == <<backends, multis, mcall>>
lvars == <<levelSet, levelMux, lastReg, lthr>>

----------------------------------------------------------------------------
(* Bounds of the model. *)

\* handlers (roots and forks) in the sequential handler specification
MaxHandlers == 4
\* handlers (the root and its forks) in the concurrent specification
MaxConcHandlers == 2
\* threads calling logHandler.Handle concurrently
NThreads == 2
\* threads calling RegisterLevel and ParseLevel concurrently
NLevelThreads == 2

----------------------------------------------------------------------------
(* Bytes and strings. *)

Nil == "nil"

ESC == "\\x1b"
NL == "\n"
QuoteCh == "\""
BackslashCh == "\\"

RECURSIVE Concat(_)
\* the concatenation of a sequence of byte strings
Concat(ss) == IF ss = <<>> THEN <<>> ELSE Head(ss) \o Concat(Tail(ss))

RECURSIVE Join(_, _)
\* strings.Join
Join(ss, sep) ==
    IF ss = <<>> THEN <<>>
    ELSE IF Len(ss) = 1 THEN ss[1]
    ELSE ss[1] \o sep \o Join(Tail(ss), sep)

\* the position of the first c in b at or after position from, 0 if none
\* (bytes.IndexByte, 1-based)
IndexByteFrom(b, c, from) ==
    LET hits == {i \in from..Len(b) : b[i] = c}
    IN IF hits = {} THEN 0 ELSE CHOOSE i \in hits : \A j \in hits : i <= j

Max(a, b) == IF a >= b THEN a ELSE b

----------------------------------------------------------------------------
(* strings: ToLower, TrimSpace, SplitN at the first '+'. *)

UpperLetters == <<"A","B","C","D","E","F","G","H","I","J","K","L","M",
                  "N","O","P","Q","R","S","T","U","V","W","X","Y","Z">>
LowerLetters == <<"a","b","c","d","e","f","g","h","i","j","k","l","m",
                  "n","o","p","q","r","s","t","u","v","w","x","y","z">>
Digits == <<"0","1","2","3","4","5","6","7","8","9">>

ToLowerCh(c) ==
    IF \E i \in 1..Len(UpperLetters) : UpperLetters[i] = c
    THEN LowerLetters[CHOOSE i \in 1..Len(UpperLetters) : UpperLetters[i] = c]
    ELSE c

\* strings.ToLower
ToLower(s) == [i \in 1..Len(s) |-> ToLowerCh(s[i])]

IsSpaceCh(c) == c \in {" ", "\t", NL, "\r"}

\* strings.TrimSpace
TrimSpace(s) ==
    LET keep == {i \in 1..Len(s) : ~IsSpaceCh(s[i])}
    IN IF keep = {} THEN <<>>
       ELSE LET lo == CHOOSE i \in keep : \A j \in keep : i <= j
                hi == CHOOSE i \in keep : \A j \in keep : i >= j
            IN SubSeq(s, lo, hi)

\* strings.SplitN(s, "+", 2): one part if s holds no '+', else the text before
\* the first '+' and all the text after it
SplitN2(s) ==
    LET i == IndexByteFrom(s, "+", 1)
    IN IF i = 0 THEN <<s>>
       ELSE <<SubSeq(s, 1, i - 1), SubSeq(s, i + 1, Len(s))>>

----------------------------------------------------------------------------
(* Levels (slog.Level) and their names. *)

LevelDebug == -4
LevelInfo == 0
LevelWarn == 4
LevelError == 8

RECURSIVE NatStr(_)
\* the decimal digits of a natural number
NatStr(n) == IF n < 10 THEN <<Digits[n + 1]>> ELSE NatStr(n \div 10) \o <<Digits[(n % 10) + 1]>>

\* fmt.Sprintf("%+d", n)
SignedStr(n) == IF n < 0 THEN <<"-">> \o NatStr(-n) ELSE <<"+">> \o NatStr(n)

\* strconv.Itoa
Itoa(n) == IF n < 0 THEN <<"-">> \o NatStr(-n) ELSE NatStr(n)

\* slog.Level.String: the anchor at or below the level, and the signed distance
LevelString(l) ==
    LET str(base, val) == IF val = 0 THEN base ELSE base \o SignedStr(val)
    IN IF l < LevelInfo THEN str(<<"D","E","B","U","G">>, l - LevelDebug)
       ELSE IF l < LevelWarn THEN str(<<"I","N","F","O">>, l - LevelInfo)
       ELSE IF l < LevelError THEN str(<<"W","A","R","N">>, l - LevelWarn)
       ELSE str(<<"E","R","R","O","R">>, l - LevelError)

SLevelDebug == <<"d","e","b","u","g">>
SLevelInfo == <<"i","n","f","o">>
SLevelWarn == <<"w","a","r","n">>
SLevelError == <<"e","r","r","o","r">>

\* SLevel.getColorPrefix
getColorPrefix(l) ==
    LET level == ToLower(SplitN2(l)[1])
    IN IF level = SLevelDebug THEN <<ESC, "[", "3", "7", "m">>
       ELSE IF level = SLevelInfo THEN <<ESC, "[", "3", "6", "m">>
       ELSE IF level = SLevelWarn THEN <<ESC, "[", "3", "3", "m">>
       ELSE IF level = SLevelError THEN <<ESC, "[", "3", "1", "m">>
       ELSE <<ESC, "[", "3", "2", "m">>

\* SLevel.getColorSuffix
getColorSuffix(l) == <<ESC, "[", "0", "m">>

----------------------------------------------------------------------------
(* Attributes (slog.Attr) and values (slog.Value). *)

LevelKey == <<"l","e","v","e","l">>
TimeKey == <<"t","i","m","e">>
MessageKey == <<"m","s","g">>
SourceKey == <<"s","o","u","r","c","e">>

\* a value: its kind, its string form (Value.String), for a time its RFC 3339
\* form, the attributes of a group, and whether it is still behind a LogValuer
\* (its kind, string and attributes are then those it resolves to)
StringValue(s) == [kind |-> "String", str |-> s, rfc |-> <<>>, group |-> <<>>, lazy |-> FALSE]
AnyValue(s) == [kind |-> "Any", str |-> s, rfc |-> <<>>, group |-> <<>>, lazy |-> FALSE]
\* a time.Time t: String() gives date, clock and zone separated by spaces,
\* Format(time.RFC3339) gives them joined by 'T' without a space
TimeValue(t) == [kind |-> "Time", str |-> t \o <<" ">> \o t, rfc |-> t \o <<"T">> \o t,
                 group |-> <<>>, lazy |-> FALSE]
\* a *slog.Source: its "file:line" form
SourceValue(file, line) ==
    [kind |-> "Source", str |-> file \o <<":">> \o line, rfc |-> <<>>, group |-> <<>>,
     lazy |-> FALSE]
GroupValue(as) == [kind |-> "Group", str |-> <<>>, rfc |-> <<>>, group |-> as, lazy |-> FALSE]
\* a value whose LogValue method returns v
LogValuerValue(v) == [v EXCEPT !.lazy = TRUE]

\* Value.Kind: KindLogValuer until the value is resolved
Kind(v) == IF v.lazy THEN "LogValuer" ELSE v.kind

\* Value.Resolve
Resolve(v) == [v EXCEPT !.lazy = FALSE]

Attr(k, v) == [key |-> k, val |-> v]
EmptyAttr == Attr(<<>>, AnyValue(<<>>))

\* needsQuoting: the empty string, or a character outside [A-Za-z0-9-._/@^+]
needsQuoting(s) ==
    \/ Len(s) = 0
    \/ \E i \in 1..Len(s) :
          LET b == s[i]
          IN ~(\/ \E j \in 1..Len(LowerLetters) : LowerLetters[j] = b
               \/ \E j \in 1..Len(UpperLetters) : UpperLetters[j] = b
               \/ \E j \in 1..Len(Digits) : Digits[j] = b
               \/ b \in {"-", ".", "_", "/", "@", "^", "+"})

QuoteCh1(c) ==
    IF c = QuoteCh THEN <<BackslashCh, QuoteCh>>
    ELSE IF c = BackslashCh THEN <<BackslashCh, BackslashCh>>
    ELSE IF c = NL THEN <<BackslashCh, "n">>
    ELSE IF c = "\t" THEN <<BackslashCh, "t">>
    ELSE IF c = "\r" THEN <<BackslashCh, "r">>
    ELSE IF c = ESC THEN <<BackslashCh, "x", "1", "b">>
    ELSE <<c>>

\* strconv.Quote
Quote(s) == <<QuoteCh>> \o Concat([i \in 1..Len(s) |-> QuoteCh1(s[i])]) \o <<QuoteCh>>

\* HandlerOptions.ReplaceAttr: nil ("none"), or the README's hook that removes
\* the top-level time attribute
ReplaceAttrFns == {"none", "removeTime"}

\* (mutant: what the hook returns is not used)
ReplaceAttrIgnored(fn, groups, a) == a

ReplaceAttr(fn, groups, a) ==
    IF fn = "removeTime" /\ a.key = TimeKey /\ Len(groups) = 0 THEN EmptyAttr
    ELSE a

\* (mutant: the enclosing groups are forgotten)
appendGroupOnly(groups, key) == IF key # <<>> THEN <<key>> ELSE <<>>

\* g2: the group stack with the group's key appended, unless the key is empty
appendGroup(groups, key) == groups \o (IF key # <<>> THEN <<key>> ELSE <<>>)

RECURSIVE addAttrs(_, _, _)
\* logHandler.addAttrs: the byte strings it writes to buf, in order
addAttrs(h, groups, attrs) ==
    IF attrs = <<>> THEN <<>>
    ELSE
      LET a0 == Head(attrs)
          a1 == IF h.replaceAttr # "none" /\ Kind(a0.val) # "Group"
                THEN ReplaceAttr(h.replaceAttr, groups, [a0 EXCEPT !.val = Resolve(a0.val)])
                ELSE a0
          a == [a1 EXCEPT !.val = Resolve(a1.val)]
          groupPrefix == Join(groups, <<".">>)
          kind == Kind(a.val)
          this ==
            IF a.key = <<>> THEN <<>>
            ELSE IF kind = "Group" THEN
                IF Len(a.val.group) > 0
                THEN addAttrs(h, appendGroup(groups, a.key), a.val.group)
                ELSE <<>>
            ELSE IF a.key = LevelKey THEN
                LET levelStr == a.val.str
                IN IF ~h.disableColor
                   THEN <<getColorPrefix(levelStr) \o levelStr \o getColorSuffix(levelStr)>>
                   ELSE <<levelStr>>
            ELSE IF a.key = TimeKey THEN
                <<<<"[">>, IF kind = "Time" THEN a.val.rfc ELSE a.val.str, <<"]">>>>
            ELSE IF a.key = MessageKey THEN <<<<" ">>, a.val.str>>
            ELSE
                LET str == IF needsQuoting(a.val.str) THEN Quote(a.val.str) ELSE a.val.str
                IN <<<<" ">>>>
                   \o (IF groupPrefix # <<>> THEN <<groupPrefix, h.sep>> ELSE <<>>)
                   \o <<a.key, <<"=">>, str>>
      IN this \o addAttrs(h, groups, Tail(attrs))

RECURSIVE replaceAttrCalls(_, _, _)
\* the invocations of h.opts.ReplaceAttr that addAttrs makes, in order: the group
\* stack and the attribute each is given
replaceAttrCalls(h, groups, attrs) ==
    IF attrs = <<>> THEN <<>>
    ELSE
      LET a0 == Head(attrs)
          called == h.replaceAttr # "none" /\ Kind(a0.val) # "Group"
          given == [a0 EXCEPT !.val = Resolve(a0.val)]
          a1 == IF called THEN ReplaceAttr(h.replaceAttr, groups, given) ELSE a0
          a == [a1 EXCEPT !.val = Resolve(a1.val)]
          inner == IF a.key # <<>> /\ Kind(a.val) = "Group" /\ Len(a.val.group) > 0
                   THEN replaceAttrCalls(h, appendGroup(groups, a.key), a.val.group)
                   ELSE <<>>
      IN (IF called THEN <<[groups |-> groups, a |-> given]>> ELSE <<>>)
         \o inner \o replaceAttrCalls(h, groups, Tail(attrs))

----------------------------------------------------------------------------
(* convertToColorKey: wraps the key of every key=value token in a colour. *)

\* (mutant: the closing quote is searched for without the space after it)
IndexQuoteOnly(val) == IndexByteFrom(val, QuoteCh, 1)

\* bytes.Index(val, quoteSuffix), 1-based, 0 if the quote followed by a space
\* does not occur
IndexQuoteSuffix(val) ==
    LET hits == {i \in 1..(Len(val) - 1) : val[i] = QuoteCh /\ val[i + 1] = " "}
    IN IF hits = {} THEN 0 ELSE CHOOSE i \in hits : \A j \in hits : i <= j

\* b[lo:hi] with Go's indices, and whether Go accepts the indices
Slice(b, lo, hi) == SubSeq(b, lo + 1, hi)
InRange(b, lo, hi) == 0 <= lo /\ lo <= hi /\ hi <= Len(b)

\* (mutant: the '=' is not written back after the key)
KeyWrapNoSplit(key, colorPrefix, colorSuffix) == colorPrefix \o key \o colorSuffix

\* what convertToColorKey writes for a key: prefix, key, suffix and the '='
KeyWrap(key, colorPrefix, colorSuffix) == colorPrefix \o key \o colorSuffix \o <<"=">>

RECURSIVE quotedScan(_, _)
\* the inner loop of convertToColorKey over a quoted value, val being the bytes
\* after the opening quote: what it writes, whether the input ended inside the
\* value, the input left after the closing quote, whether a slice index was out
\* of range, and the iterations made
quotedScan(val, out) ==
    LET index == IndexQuoteSuffix(val) - 1
    IN IF index = -1
       THEN [eof |-> TRUE, out |-> out \o val, rest |-> <<>>, panic |-> FALSE, iters |-> 1]
       ELSE IF ~InRange(val, index + 2, Len(val))
       THEN [eof |-> TRUE, out |-> out, rest |-> <<>>, panic |-> TRUE, iters |-> 1]
       ELSE LET out2 == out \o Slice(val, 0, index) \o <<QuoteCh, " ">>
                rest == Slice(val, index + 2, Len(val))
            IN IF index > 0 /\ val[index] # BackslashCh
               THEN [eof |-> FALSE, out |-> out2, rest |-> rest, panic |-> FALSE, iters |-> 1]
               ELSE LET q == quotedScan(rest, out2)
                    IN [q EXCEPT !.iters = @ + 1]

RECURSIVE colorScan(_, _, _, _)
\* the outer loop of convertToColorKey: what it has written when it stops,
\* whether a slice index was out of range, whether an iteration left the input
\* no shorter than it found it, and the iterations made by both loops
colorScan(b, out, colorPrefix, colorSuffix) ==
    LET index == IndexByteFrom(b, "=", 1) - 1
        again(rest, out2, n) ==
            IF Len(rest) >= Len(b)
            THEN [out |-> out2, panic |-> FALSE, stuck |-> TRUE, iters |-> n]
            ELSE LET r == colorScan(rest, out2, colorPrefix, colorSuffix)
                 IN [r EXCEPT !.iters = @ + n]
    IN IF index = -1 THEN [out |-> out \o b, panic |-> FALSE, stuck |-> FALSE, iters |-> 1]
       ELSE
         LET key == Slice(b, 0, index)
             out1 == out \o KeyWrap(key, colorPrefix, colorSuffix)
             val == Slice(b, index + 1, Len(b))
         IN IF IndexByteFrom(val, QuoteCh, 1) - 1 = 0
            THEN LET q == quotedScan(Slice(val, 1, Len(val)), out1 \o <<QuoteCh>>)
                 IN IF q.panic \/ q.eof
                    THEN [out |-> q.out, panic |-> q.panic, stuck |-> FALSE,
                          iters |-> q.iters + 1]
                    ELSE again(q.rest, q.out, q.iters + 1)
            ELSE LET sp == IndexByteFrom(val, " ", 1) - 1
                 IN IF sp = -1
                    THEN [out |-> out1 \o val, panic |-> FALSE, stuck |-> FALSE, iters |-> 1]
                    ELSE IF ~InRange(val, sp + 1, Len(val))
                    THEN [out |-> out1, panic |-> TRUE, stuck |-> FALSE, iters |-> 1]
                    ELSE again(Slice(val, sp + 1, Len(val)),
                               out1 \o Slice(val, 0, sp) \o <<" ">>, 1)

\* convertToColorKey run to its end: the empty input is returned as it is
convertRun(b, colorPrefix, colorSuffix) ==
    IF Len(b) = 0 THEN [out |-> b, panic |-> FALSE, stuck |-> FALSE, iters |-> 0]
    ELSE colorScan(b, <<>>, colorPrefix, colorSuffix)

\* convertToColorKey: the bytes it returns
convertToColorKey(b, colorPrefix, colorSuffix) == convertRun(b, colorPrefix, colorSuffix).out

----------------------------------------------------------------------------
(* bytes.Buffer as logHandler.attrBuffer uses it: a slice (array, length) of *)
(* a backing array in the heap.  An array is its capacity and the bytes      *)
(* written to it so far; the cells after them are zero and no slice of the   *)
(* model reaches them.                                                       *)

\* the capacity bytes.Buffer gives the first small allocation
smallBufferSize == 64

\* a buffer state: the array heap, the array of the buffer (0 is nil) and
\* the length of its slice
BufCap(heap, arr) == IF arr = 0 THEN 0 ELSE heap[arr].cap

\* Buffer.Bytes
BufBytes(heap, arr, len) == IF arr = 0 THEN <<>> ELSE SubSeq(heap[arr].data, 1, len)

\* Buffer.Write / WriteString of p: written in place when the capacity after
\* the slice holds it (tryGrowByReslice), else into a new array (grow)
BufWrite(st, p) ==
    LET n == Len(p)
        heap == st.heap
    IN IF n <= BufCap(heap, st.arr) - st.len
       THEN IF st.arr = 0 THEN st
            ELSE LET old == heap[st.arr].data
                     new == SubSeq(old, 1, st.len) \o p \o SubSeq(old, st.len + n + 1, Len(old))
                 IN [heap |-> [heap EXCEPT ![st.arr].data = new],
                     arr |-> st.arr, len |-> st.len + n]
       ELSE IF st.arr = 0 /\ n <= smallBufferSize
            THEN [heap |-> Append(heap, [cap |-> smallBufferSize, data |-> p]),
                  arr |-> Len(heap) + 1, len |-> n]
            ELSE [heap |-> Append(heap, [cap |-> Max(st.len + n, 2 * BufCap(heap, st.arr)),
                                         data |-> BufBytes(heap, st.arr, st.len) \o p]),
                  arr |-> Len(heap) + 1, len |-> st.len + n]

RECURSIVE BufWriteAll(_, _)
\* the writes of addAttrs, one after the other
BufWriteAll(st, ps) ==
    IF ps = <<>> THEN st ELSE BufWriteAll(BufWrite(st, Head(ps)), Tail(ps))

----------------------------------------------------------------------------
(* logHandler. *)

\* the inputs the model draws: attribute lists, group names, records
AttrA == Attr(<<"a">>, StringValue(<<"1">>))
AttrB == Attr(<<"b">>, StringValue(<<"2", " ", "3">>))
AttrX == Attr(<<"x">>, StringValue(<<"0">>))

AttrLists == {<<AttrA>>, <<AttrB, Attr(<<"n">>, GroupValue(<<AttrX>>))>>}
GroupNames == {<<"g">>}

\* a slog.Record: level, message, time, call site and attributes
RecordPlain == [level |-> LevelInfo, msg |-> <<"h","i">>, time |-> <<"0">>, pc |-> <<"7">>,
                attrs |-> <<>>]
RecordAttr == [level |-> LevelWarn + 1, msg |-> <<"o","h">>, time |-> <<"1">>, pc |-> <<"9">>,
               attrs |-> <<AttrA>>]
\* a record whose message holds a line terminator
RecordTwoLines == [level |-> LevelInfo, msg |-> <<"h", NL, "i">>, time |-> <<"0">>,
                   pc |-> <<"7">>, attrs |-> <<>>]
Records == {RecordPlain, RecordAttr, RecordTwoLines}
\* the records the concurrent goroutines log
ConcRecords == {RecordAttr}

\* the errors a sink's Write may return
WriteErrors == {"ErrShortWrite"}

\* HandlerOptions and disableColor as NewLogHandler's callers give them
HandlerConfigs ==
    {[replaceAttr |-> "none", addSource |-> FALSE, disableColor |-> FALSE],
     [replaceAttr |-> "removeTime", addSource |-> TRUE, disableColor |-> TRUE]}

\* NewLogHandler: the handler it returns, on sink w with mutex mu
newLogHandler(w, mu, cfg) ==
    [w |-> w, mu |-> mu, replaceAttr |-> cfg.replaceAttr, addSource |-> cfg.addSource,
     sep |-> <<".">>, groups |-> <<>>, arr |-> 0, len |-> 0,
     disableColor |-> cfg.disableColor,
     parent |-> 0, op |-> "new", arg |-> <<>>]

\* logHandler.clone: every field copied; attrBuffer is copied as a struct, so the copy's
\* slice is over the same backing array; groups is clipped, so an append to the copy's
\* groups never writes to the original's array
clone(h) == h

\* the handler's accumulated attribute bytes: h.attrBuffer.Bytes()
AttrBytes(hs, heap, i) == BufBytes(heap, hs[i].arr, hs[i].len)

\* (mutant: attrBuf starts as a copy of the handler's buffer struct, a slice of
\* the handler's backing array)
handleAttrBufShared(h) == [arr |-> h.arr, len |-> h.len]

\* var attrBuf bytes.Buffer: Handle's local buffer, the zero value
handleAttrBuf(h) == [arr |-> 0, len |-> 0]

\* the writes of Handle to attrBuf, in order: the source attribute, the handler's
\* accumulated bytes, the record's attributes; the result is the heap and attrBuf
\* after them
handleAttrWrites(h, heap, r) ==
    LET b0 == handleAttrBuf(h)
        source == IF h.addSource
                  THEN addAttrs(h, <<>>,
                          <<Attr(SourceKey, SourceValue(<<"f", ".", "g", "o">>, r.pc))>>)
                  ELSE <<>>
        st1 == BufWriteAll([heap |-> heap, arr |-> b0.arr, len |-> b0.len], source)
        st2 == BufWrite(st1, BufBytes(st1.heap, h.arr, h.len))
    IN BufWriteAll(st2, addAttrs(h, <<>>, r.attrs))

\* the backing arrays of the handlers once Handle has assembled its line: the
\* arrays there were, after Handle's writes; the array of its local buffer is
\* garbage
handleHeap(h, heap, r) == SubSeq(handleAttrWrites(h, heap, r).heap, 1, Len(heap))

\* logHandler.Handle up to the lock: the line it will write
HandleLine(h, heap, r) ==
    LET defAttrs == <<Attr(LevelKey, AnyValue(LevelString(r.level))),
                      Attr(TimeKey, TimeValue(r.time)),
                      Attr(MessageKey, StringValue(r.msg))>>
        defBuf == Concat(addAttrs(h, <<>>, defAttrs)) \o <<" ">>
        st == handleAttrWrites(h, heap, r)
        attrBuf == BufBytes(st.heap, st.arr, st.len)
        slevel == LevelString(r.level)
        attrBytes == IF ~h.disableColor
                     THEN convertToColorKey(attrBuf, getColorPrefix(slevel),
                                            getColorSuffix(slevel))
                     ELSE attrBuf
    IN defBuf \o attrBytes \o <<NL>>

EmptySink == [calls |-> <<>>, out |-> <<>>, active |-> {}]
IdleThread == [pc |-> "idle", h |-> 0, rec |-> 0, line |-> <<>>, writes |-> 0,
               err |-> Nil, ret |-> Nil]

NoCall == [op |-> "none"]

\* no Logger has been made over a back end or a multiHandler
NoLogger == [kind |-> "none", h |-> 0, pc |-> "idle", level |-> 0, calls |-> 0,
             failures |-> 0, trace |-> <<>>]

\* the registry as the package initialises it
InitLevelSet == [n \in {SLevelDebug, SLevelInfo, SLevelWarn, SLevelError} |->
                    IF n = SLevelDebug THEN LevelDebug
                    ELSE IF n = SLevelInfo THEN LevelInfo
                    ELSE IF n = SLevelWarn THEN LevelWarn
                    ELSE LevelError]

\* the state after the package's init: the default logger's handler writes to
\* os.Stdout (sink 1) without colour; sink 2 is a writer of the caller's and sink 3
\* the writer that Config.Writer() builds
InitHandlerState ==
    /\ handlers = <<newLogHandler(1, 1, [replaceAttr |-> "none", addSource |-> FALSE,
                                         disableColor |-> TRUE])>>
    /\ arrays = <<>>
    /\ mutexes = <<0>>
    /\ sinks = <<EmptySink, EmptySink, EmptySink>>
    /\ thr = [t \in 1..NThreads |-> IdleThread]

NoThreadInHandle == \A t \in DOMAIN thr : thr[t].pc \in {"idle", "done"}

\* NewLogHandler(w, opts, disableColor) with a new mutex
NewLogHandler(max, w, cfg) ==
    /\ Len(handlers) < max
    /\ NoThreadInHandle
    /\ handlers' = Append(handlers, newLogHandler(w, Len(mutexes) + 1, cfg))
    /\ mutexes' = Append(mutexes, 0)
    /\ UNCHANGED <<arrays, sinks, thr, backends, multis, mcall, levelSet, levelMux, lastReg, lthr, flat, color, built, logger>>

\* (mutant: groups is not clipped and has spare capacity, so the append also
\* lengthens the parent's group stack)
WithGroupUnclipped(max, p, name) ==
    /\ Len(handlers) < max
    /\ NoThreadInHandle
    /\ LET cp == clone(handlers[p])
       IN handlers' = Append([handlers EXCEPT ![p].groups = Append(@, name)],
              [cp EXCEPT !.groups = Append(cp.groups, name),
                         !.parent = p, !.op = "group", !.arg = name])
    /\ UNCHANGED <<arrays, mutexes, sinks, thr, backends, multis, mcall, levelSet, levelMux, lastReg, lthr, flat, color, built, logger>>

\* logHandler.WithGroup(name) on handler p
WithGroup(max, p, name) ==
    /\ Len(handlers) < max
    /\ NoThreadInHandle
    /\ LET cp == clone(handlers[p])
       IN handlers' = Append(handlers,
              [cp EXCEPT !.groups = Append(cp.groups, name),
                         !.parent = p, !.op = "group", !.arg = name])
    /\ UNCHANGED <<arrays, mutexes, sinks, thr, backends, multis, mcall, levelSet, levelMux, lastReg, lthr, flat, color, built, logger>>

\* (mutant: the attributes are flattened under no group)
copyGroupsNone(cp) == <<>>

\* groups := make([]string, len(cp.groups)); copy(groups[:], cp.groups[:])
copyGroups(cp) == cp.groups

\* logHandler.WithAttrs(attrs) on handler p
WithAttrs(max, p, attrs) ==
    /\ Len(handlers) < max
    /\ NoThreadInHandle
    /\ LET cp == clone(handlers[p])
           groups == copyGroups(cp)
           st == BufWriteAll([heap |-> arrays, arr |-> cp.arr, len |-> cp.len],
                             addAttrs(cp, groups, attrs))
       IN /\ handlers' = Append(handlers,
                 [cp EXCEPT !.arr = st.arr, !.len = st.len,
                            !.parent = p, !.op = "attrs", !.arg = attrs])
          /\ arrays' = st.heap
    /\ UNCHANGED <<mutexes, sinks, thr, backends, multis, mcall, levelSet, levelMux, lastReg, lthr, flat, color, built, logger>>

\* (mutant: Lock returns at once, as if every fork had a mutex of its own)
MutexFreeNoWait(mu) == TRUE

\* h.mu.Lock() returns only when no thread holds the mutex
MutexFree(mu) == mutexes[mu] = 0

\* (mutant: Unlock is not deferred and is skipped on the error path)
UnlockOnlyOnSuccess(err) == err = Nil

\* defer h.mu.Unlock(): the mutex is released on return, whatever Write returned
UnlockOnReturn(err) == TRUE

\* return err: Handle returns what Write returned
HandleResult(err) == err

\* logHandler.Handle, to h.mu.Lock(): the line is assembled from the default fields,
\* the handler's accumulated attributes and the record's attributes
HandleCall(t, h, r) ==
    /\ thr[t].pc = "idle"
    /\ thr' = [thr EXCEPT ![t] = [IdleThread EXCEPT !.pc = "lock", !.h = h, !.rec = r,
                                    !.line = HandleLine(handlers[h], arrays, r)]]
    /\ arrays' = handleHeap(handlers[h], arrays, r)
    /\ UNCHANGED <<handlers, mutexes, sinks, backends, multis, mcall, levelSet, levelMux, lastReg, lthr, flat, color, built, logger>>

\* h.mu.Lock()
HandleLock(t) ==
    /\ thr[t].pc = "lock"
    /\ MutexFree(handlers[thr[t].h].mu)
    /\ mutexes' = [mutexes EXCEPT ![handlers[thr[t].h].mu] = t]
    /\ thr' = [thr EXCEPT ![t].pc = "write"]
    /\ UNCHANGED <<handlers, arrays, sinks, backends, multis, mcall, levelSet, levelMux, lastReg, lthr, flat, color, built, logger>>

\* the bytes of a line that a Write has put out when another thread may next run
FirstChunk(line) == SubSeq(line, 1, Len(line) \div 2)
RestChunk(line) == SubSeq(line, (Len(line) \div 2) + 1, Len(line))

\* h.w.Write(defBuf.Bytes()) is entered: the sink receives the call and starts
\* to put the bytes out
WriteBegin(t) ==
    /\ thr[t].pc = "write"
    /\ LET w == handlers[thr[t].h].w
       IN sinks' = [sinks EXCEPT ![w].calls = Append(@, [by |-> t, data |-> thr[t].line,
                                                           res |-> "pending"]),
                                 ![w].out = @ \o FirstChunk(thr[t].line),
                                 ![w].active = @ \cup {t}]
    /\ thr' = [thr EXCEPT ![t].pc = "writing", ![t].writes = @ + 1]
    /\ UNCHANGED <<handlers, arrays, mutexes, backends, multis, mcall, levelSet, levelMux, lastReg, lthr, flat, color, built, logger>>

\* Write returns: nil after the rest of the bytes, or an error after a short write
WriteEnd(t, err) ==
    /\ thr[t].pc = "writing"
    /\ LET w == handlers[thr[t].h].w
           i == CHOOSE i \in DOMAIN sinks[w].calls :
                    sinks[w].calls[i].by = t /\ sinks[w].calls[i].res = "pending"
       IN sinks' = [sinks EXCEPT ![w].calls[i].res = err,
                                 ![w].out = IF err = Nil THEN @ \o RestChunk(thr[t].line)
                                                         ELSE @,
                                 ![w].active = @ \ {t}]
    /\ thr' = [thr EXCEPT ![t].pc = "unlock", ![t].err = err]
    /\ UNCHANGED <<handlers, arrays, mutexes, backends, multis, mcall, levelSet, levelMux, lastReg, lthr, flat, color, built, logger>>

\* return err, and the deferred h.mu.Unlock()
HandleReturn(t) ==
    /\ thr[t].pc = "unlock"
    /\ mutexes' = IF UnlockOnReturn(thr[t].err)
                  THEN [mutexes EXCEPT ![handlers[thr[t].h].mu] = 0]
                  ELSE mutexes
    /\ thr' = [thr EXCEPT ![t].pc = "done", ![t].ret = HandleResult(thr[t].err)]
    /\ UNCHANGED <<handlers, arrays, sinks, backends, multis, mcall, levelSet, levelMux, lastReg, lthr, flat, color, built, logger>>

IdleLevelThread == [pc |-> "idle", op |-> "none", name |-> <<>>, str |-> <<>>, level |-> 0,
                    val |-> 0, ret |-> 0]

\* the variables of the other components, as the package initialises them
InitMultiState ==
    /\ backends = <<>>
    /\ multis = <<>>
    /\ mcall = NoCall

InitLevelState ==
    /\ levelSet = InitLevelSet
    /\ levelMux = 0
    /\ lastReg = <<>>
    /\ lthr = [t \in 1..NLevelThreads |-> IdleLevelThread]

\* no addAttrs or convertToColorKey call has been made on its own
InitCallState ==
    /\ flat = NoCall
    /\ color = NoCall

\* New has not been called, and no Logger wraps a back end
InitFacadeState ==
    /\ built = NoCall
    /\ logger = NoLogger

Init == InitHandlerState /\ InitMultiState /\ InitLevelState /\ InitCallState
        /\ InitFacadeState

\* one goroutine creates handlers, forks them and logs once
Next ==
    \/ \E cfg \in HandlerConfigs : NewLogHandler(MaxHandlers, 2, cfg)
    \/ \E p \in DOMAIN handlers, name \in GroupNames : WithGroup(MaxHandlers, p, name)
    \/ \E p \in DOMAIN handlers, attrs \in AttrLists : WithAttrs(MaxHandlers, p, attrs)
    \/ \E h \in DOMAIN handlers, r \in Records : HandleCall(1, h, r)
    \/ HandleLock(1)
    \/ WriteBegin(1)
    \/ \E err \in WriteErrors \cup {Nil} : WriteEnd(1, err)
    \/ HandleReturn(1)

Spec == Init /\ [][Next]_vars

\* NThreads goroutines log through the default handler and its forks
NextConc ==
    \/ \E p \in DOMAIN handlers, name \in GroupNames : WithGroup(MaxConcHandlers, p, name)
    \/ \E p \in DOMAIN handlers, attrs \in AttrLists : WithAttrs(MaxConcHandlers, p, attrs)
    \/ \E t \in 1..NThreads, h \in DOMAIN handlers, r \in ConcRecords : HandleCall(t, h, r)
    \/ \E t \in 1..NThreads : HandleLock(t)
    \/ \E t \in 1..NThreads : WriteBegin(t)
    \/ \E t \in 1..NThreads, err \in WriteErrors \cup {Nil} : WriteEnd(t, err)
    \/ \E t \in 1..NThreads : HandleReturn(t)

SpecConc == Init /\ [][NextConc]_vars

----------------------------------------------------------------------------
(* Claims about logHandler. *)

AllDone == \A t \in 1..NThreads : thr[t].pc = "done"

\* the bytes a sink has put out for a Write: all of them, or the first chunk of a
\* Write that failed
PutOut(call) == IF call.res = Nil THEN call.data ELSE FirstChunk(call.data)

\* C1: with N threads each calling Handle once on the root and its forks, at most
\* one Write on the shared sink is in progress at any time, and once all calls have
\* returned the sink has received exactly N writes, one per Handle call and carrying
\* that call's complete line, and the sink's byte stream is those writes one after
\* the other, none split or spliced with another.
C1_SerializedWrites ==
    /\ \A w \in DOMAIN sinks : Cardinality(sinks[w].active) <= 1
    /\ \A w \in DOMAIN sinks :
          sinks[w].active = {} =>
             sinks[w].out = Concat([i \in DOMAIN sinks[w].calls |-> PutOut(sinks[w].calls[i])])
    /\ AllDone =>
          /\ Len(sinks[1].calls) = NThreads
          /\ \A t \in 1..NThreads :
                /\ Cardinality({i \in DOMAIN sinks[1].calls : sinks[1].calls[i].by = t}) = 1
                /\ \E i \in DOMAIN sinks[1].calls :
                      /\ sinks[1].calls[i].by = t
                      /\ sinks[1].calls[i].data = thr[t].line
                      /\ thr[t].line[Len(thr[t].line)] = NL

\* C1's case: every thread has returned, two of them logged through different
\* handlers of the same root, one of these a fork made by WithAttrs
C1_Witness ==
    /\ AllDone
    /\ \E t1, t2 \in 1..NThreads :
          /\ thr[t1].h # thr[t2].h
          /\ handlers[thr[t1].h].op = "attrs"
          /\ thr[t1].ret = Nil /\ thr[t2].ret = Nil
    /\ Len(sinks[1].calls) = NThreads

\* C2: a fork made by WithAttrs(A) of p holds p's accumulated bytes followed by the
\* flattening of A, whatever forks of p are made later.
C2_ForksIndependent ==
    \A c \in DOMAIN handlers :
        handlers[c].op = "attrs" =>
            LET p == handlers[c].parent
            IN AttrBytes(handlers, arrays, c) =
                  AttrBytes(handlers, arrays, p)
                     \o Concat(addAttrs(handlers[p], handlers[p].groups, handlers[c].arg))

RECURSIVE DerivedFrom(_, _, _)
\* whether handler c of heap hs is p or was derived from p by a chain of
\* WithAttrs / WithGroup calls
DerivedFrom(hs, c, p) ==
    IF c = p THEN TRUE
    ELSE IF hs[c].parent = 0 THEN FALSE
    ELSE DerivedFrom(hs, hs[c].parent, p)

\* C3: a WithAttrs or WithGroup call on p, or on a handler derived from p, leaves
\* p's accumulated attribute bytes and p's group stack as they were, and the
\* handler it returns has the sink and the mutex of the handler it was called on.
C3_ForkLeavesParent ==
    [][\A p \in DOMAIN handlers :
          LET c == Len(handlers')
          IN (c = Len(handlers) + 1 /\ handlers'[c].op \in {"attrs", "group"}
                /\ DerivedFrom(handlers', handlers'[c].parent, p))
             => /\ AttrBytes(handlers', arrays', p) = AttrBytes(handlers, arrays, p)
                /\ handlers'[p].groups = handlers[p].groups
                /\ handlers'[c].w = handlers[p].w
                /\ handlers'[c].mu = handlers[p].mu]_vars

\* C3's case: a handler p that holds accumulated attributes has been forked by
\* WithAttrs, the fork's bytes lie in p's own backing array after p's, and a second
\* root with a mutex of its own exists
C3_Witness ==
    \E p, c, r \in DOMAIN handlers :
        /\ handlers[p].len > 0
        /\ handlers[c].parent = p /\ handlers[c].op = "attrs"
        /\ handlers[c].arr = handlers[p].arr /\ handlers[c].len > handlers[p].len
        /\ handlers[r].op = "new" /\ handlers[r].mu # handlers[p].mu

\* C4: a Handle call writes to the sink exactly once, holding the shared mutex while
\* it does; it returns the error Write returned (nil on success); and it has
\* released the mutex when it returns, after a failed write as after a good one, so
\* the mutex is only ever held by a thread that is between Lock and its return.
C4_OneWriteUnderLock ==
    \A t \in 1..NThreads :
        /\ thr[t].writes <= 1
        /\ thr[t].pc = "writing" =>
              /\ mutexes[handlers[thr[t].h].mu] = t
              /\ t \in sinks[handlers[thr[t].h].w].active
        /\ thr[t].pc = "done" =>
              /\ thr[t].writes = 1
              /\ \E i \in DOMAIN sinks[handlers[thr[t].h].w].calls :
                    LET call == sinks[handlers[thr[t].h].w].calls[i]
                    IN call.by = t /\ call.res = thr[t].ret
        /\ \A m \in DOMAIN mutexes :
              mutexes[m] = t => thr[t].pc \in {"write", "writing", "unlock"}

\* C4's case: a Handle call returned the error of its failed write, and a Handle
\* call on a fork sharing the mutex wrote after it and returned nil
C4_Witness ==
    \E t1, t2 \in 1..NThreads :
        /\ thr[t1].pc = "done" /\ thr[t1].ret \in WriteErrors
        /\ thr[t2].pc = "done" /\ thr[t2].ret = Nil
        /\ thr[t1].h # thr[t2].h
        /\ \E i, j \in DOMAIN sinks[1].calls :
              i < j /\ sinks[1].calls[i].by = t1 /\ sinks[1].calls[j].by = t2

----------------------------------------------------------------------------
(* multiHandler.  A back end is any slog.Handler: the model keeps its minimum     *)
(* level (what its Enabled answers) and how it was made; what its Handle returns  *)
(* is an input of each call.                                                      *)

\* back ends (made by the caller or by WithAttrs / WithGroup) in the heap
MaxBackends == 4
\* multiHandlers in the heap
MaxMultis == 2
\* back ends given to NewMultiHandler
MaxFan == 3

\* the levels the back ends are enabled from, and the levels asked about
BackendLevels == {LevelInfo, LevelError}
AskedLevels == {LevelDebug, LevelInfo, LevelError}

\* the error back end b returns from Handle when it fails
BackendErrorNames == <<"err1", "err2", "err3", "err4", "err5", "err6", "err7", "err8">>
BackendError(b) == BackendErrorNames[b]

\* Handler.Enabled of back end b (for a logHandler: level >= minLevel)
BackendEnabled(b, level) == level >= backends[b].minLevel

\* errors.Join: nil when no error is non-nil, else a joinError that wraps the
\* non-nil errors in order
errorsJoin(errs) ==
    LET nonNil == SelectSeq(errs, LAMBDA e : e # Nil)
    IN [isNil |-> nonNil = <<>>, errs |-> nonNil]

RECURSIVE enabledLoop(_, _, _)
\* the loop of multiHandler.Enabled over hs from position i: the back ends asked,
\* and the answer
enabledLoop(hs, i, level) ==
    IF i > Len(hs) THEN [asked |-> <<>>, ret |-> FALSE]
    ELSE IF BackendEnabled(hs[i], level) THEN [asked |-> <<hs[i]>>, ret |-> TRUE]
    ELSE LET rest == enabledLoop(hs, i + 1, level)
         IN [asked |-> <<hs[i]>> \o rest.asked, ret |-> rest.ret]

RECURSIVE enabledLoopAll(_, _, _)
\* (mutant: every back end must be enabled)
enabledLoopAll(hs, i, level) ==
    IF i > Len(hs) THEN [asked |-> <<>>, ret |-> TRUE]
    ELSE IF ~BackendEnabled(hs[i], level) THEN [asked |-> <<hs[i]>>, ret |-> FALSE]
    ELSE LET rest == enabledLoopAll(hs, i + 1, level)
         IN [asked |-> <<hs[i]>> \o rest.asked, ret |-> rest.ret]

\* (mutant: multiHandler.Enabled answers whether all back ends are enabled)
multiEnabledAll(hs, level) == enabledLoopAll(hs, 1, level)

\* multiHandler.Enabled
multiEnabled(hs, level) == enabledLoop(hs, 1, level)

RECURSIVE handleLoop(_, _, _, _)
\* the loop of multiHandler.Handle over hs from position i, where res[i] is what
\* back end i returns: the calls made, and the errors collected
handleLoop(hs, i, res, errs) ==
    IF i > Len(hs) THEN [called |-> <<>>, errs |-> errs]
    ELSE LET err == res[i]
             rest == handleLoop(hs, i + 1, res, IF err # Nil THEN Append(errs, err) ELSE errs)
         IN [called |-> <<[b |-> hs[i], err |-> err]>> \o rest.called, errs |-> rest.errs]

RECURSIVE handleLoopFailFast(_, _, _, _)
\* (mutant: the loop returns at the first error)
handleLoopFailFast(hs, i, res, errs) ==
    IF i > Len(hs) THEN [called |-> <<>>, errs |-> errs]
    ELSE LET err == res[i]
         IN IF err # Nil
            THEN [called |-> <<[b |-> hs[i], err |-> err]>>, errs |-> Append(errs, err)]
            ELSE LET rest == handleLoopFailFast(hs, i + 1, res, errs)
                 IN [called |-> <<[b |-> hs[i], err |-> err]>> \o rest.called,
                     errs |-> rest.errs]

\* (mutant: multiHandler.Handle stops at the first failing back end)
multiHandleFailFast(hs, res) ==
    LET run == handleLoopFailFast(hs, 1, res, <<>>)
    IN [called |-> run.called, ret |-> errorsJoin(run.errs)]

\* multiHandler.Handle
multiHandle(hs, res) ==
    LET run == handleLoop(hs, 1, res, <<>>)
    IN [called |-> run.called, ret |-> errorsJoin(run.errs)]

\* the caller makes a back end
NewBackend(minLevel) ==
    /\ Len(backends) < MaxBackends
    /\ backends' = Append(backends, [minLevel |-> minLevel, parent |-> 0, op |-> "new",
                                     arg |-> <<>>])
    /\ mcall' = [op |-> "NewBackend"]
    /\ UNCHANGED <<multis, handlers, arrays, mutexes, sinks, thr, levelSet, levelMux, lastReg, lthr, flat, color, built, logger>>

\* NewMultiHandler(handlers...), called once; the model wraps the first n back ends
\* of the heap
NewMultiHandler(hs) ==
    /\ multis = <<>>
    /\ multis' = Append(multis, [handlers |-> hs])
    /\ mcall' = [op |-> "NewMultiHandler"]
    /\ UNCHANGED <<backends, handlers, arrays, mutexes, sinks, thr, levelSet, levelMux, lastReg, lthr, flat, color, built, logger>>

\* multiHandler.Enabled(ctx, level) on multiHandler m
MultiEnabled(m, level) ==
    /\ LET run == multiEnabled(multis[m].handlers, level)
       IN mcall' = [op |-> "Enabled", m |-> m, level |-> level, asked |-> run.asked,
                    ret |-> run.ret]
    /\ UNCHANGED <<backends, multis, handlers, arrays, mutexes, sinks, thr, levelSet, levelMux, lastReg, lthr, flat, color, built, logger>>

\* multiHandler.Handle(ctx, record) on multiHandler m, where back end i returns res[i]
MultiHandle(m, r, res) ==
    /\ LET run == multiHandle(multis[m].handlers, res)
       IN mcall' = [op |-> "Handle", m |-> m, rec |-> r, called |-> run.called,
                    ret |-> run.ret]
    /\ UNCHANGED <<backends, multis, handlers, arrays, mutexes, sinks, thr, levelSet, levelMux, lastReg, lthr, flat, color, built, logger>>

\* the back ends handler.WithAttrs(attrs) / handler.WithGroup(name) returns for each
\* back end of hs, appended to the heap
ForkBackends(hs, op, arg) ==
    [i \in 1..Len(hs) |-> [minLevel |-> backends[hs[i]].minLevel, parent |-> hs[i],
                           op |-> op, arg |-> arg]]

\* (mutant: the copy is made over the original's slice, so the forks overwrite the
\* original's back ends)
MultiWithShared(m, op, arg) ==
    /\ Len(multis) < MaxMultis
    /\ Len(backends) + Len(multis[m].handlers) <= MaxBackends
    /\ LET hs == multis[m].handlers
           forks == [i \in 1..Len(hs) |-> Len(backends) + i]
       IN /\ backends' = backends \o ForkBackends(hs, op, arg)
          /\ multis' = Append([multis EXCEPT ![m].handlers = forks], [handlers |-> forks])
          /\ mcall' = [op |-> op, m |-> m, arg |-> arg, before |-> hs,
                       ret |-> Len(multis) + 1]
    /\ UNCHANGED <<handlers, arrays, mutexes, sinks, thr, levelSet, levelMux, lastReg, lthr, flat, color, built, logger>>

\* multiHandler.WithAttrs / multiHandler.WithGroup on multiHandler m: a new
\* multiHandler over a new slice that holds the forks of m's back ends
MultiWith(m, op, arg) ==
    /\ Len(multis) < MaxMultis
    /\ Len(backends) + Len(multis[m].handlers) <= MaxBackends
    /\ LET hs == multis[m].handlers
       IN /\ backends' = backends \o ForkBackends(hs, op, arg)
          /\ multis' = Append(multis, [handlers |-> [i \in 1..Len(hs) |-> Len(backends) + i]])
          /\ mcall' = [op |-> op, m |-> m, arg |-> arg, before |-> hs,
                       ret |-> Len(multis) + 1]
    /\ UNCHANGED <<handlers, arrays, mutexes, sinks, thr, levelSet, levelMux, lastReg, lthr, flat, color, built, logger>>

MultiWithAttrs(m, attrs) == MultiWith(m, "WithAttrs", attrs)

MultiWithGroup(m, name) == MultiWith(m, "WithGroup", name)

NextMulti ==
    \/ \E l \in BackendLevels : NewBackend(l)
    \/ \E n \in 0..MaxFan : n <= Len(backends) /\ NewMultiHandler([i \in 1..n |-> i])
    \/ \E m \in DOMAIN multis, l \in AskedLevels : MultiEnabled(m, l)
    \/ \E m \in DOMAIN multis :
          \E res \in [DOMAIN multis[m].handlers ->
                        {Nil} \cup {BackendError(b) : b \in DOMAIN backends}] :
             /\ \A i \in DOMAIN res : res[i] \in {Nil, BackendError(multis[m].handlers[i])}
             /\ MultiHandle(m, RecordPlain, res)
    \/ \E m \in DOMAIN multis : MultiWithAttrs(m, <<AttrA>>)
    \/ \E m \in DOMAIN multis : MultiWithGroup(m, <<"g">>)

SpecMulti == Init /\ [][NextMulti]_vars

----------------------------------------------------------------------------
(* Claims about multiHandler. *)

\* C5: multiHandler.Handle calls every wrapped back end exactly once and in order,
\* whatever the earlier ones returned; it returns nil when none failed, and else
\* an aggregate of exactly the failing back ends' errors, in back-end order.
C5_HandleFanOut ==
    mcall.op = "Handle" =>
        LET hs == multis[mcall.m].handlers
            failed == SelectSeq(mcall.called, LAMBDA c : c.err # Nil)
        IN /\ Len(mcall.called) = Len(hs)
           /\ \A i \in DOMAIN hs : mcall.called[i].b = hs[i]
           /\ mcall.ret.isNil <=> (\A i \in DOMAIN hs : mcall.called[i].err = Nil)
           /\ mcall.ret.errs = [i \in DOMAIN failed |-> failed[i].err]
           /\ \A i \in DOMAIN failed : failed[i].err = BackendError(failed[i].b)

\* C5's case: of three back ends the second failed, the first and the third were
\* still called, and the aggregate reports one failure
C5_Witness ==
    /\ mcall.op = "Handle"
    /\ Len(mcall.called) = 3
    /\ mcall.called[1].err = Nil
    /\ mcall.called[2].err # Nil
    /\ mcall.called[3].err = Nil
    /\ ~mcall.ret.isNil /\ Len(mcall.ret.errs) = 1

\* the position of the first back end of hs enabled at level, 0 if none
FirstEnabled(hs, level) ==
    LET on == {i \in DOMAIN hs : BackendEnabled(hs[i], level)}
    IN IF on = {} THEN 0 ELSE CHOOSE i \in on : \A j \in on : i <= j

\* C6: multiHandler.Enabled(level) is true iff at least one wrapped back end is
\* enabled at the level; the back ends are asked in order and none after the first
\* that answers true; with no back ends the answer is false.
C6_EnabledAny ==
    mcall.op = "Enabled" =>
        LET hs == multis[mcall.m].handlers
            first == FirstEnabled(hs, mcall.level)
        IN /\ mcall.ret <=> (\E i \in DOMAIN hs : BackendEnabled(hs[i], mcall.level))
           /\ mcall.asked = SubSeq(hs, 1, IF first = 0 THEN Len(hs) ELSE first)
           /\ hs = <<>> => ~mcall.ret

\* C6's case: the first back end is not enabled at the level, the second is, and a
\* third was not asked
C6_Witness ==
    /\ mcall.op = "Enabled"
    /\ mcall.ret
    /\ Len(multis[mcall.m].handlers) = 3
    /\ Len(mcall.asked) = 2

\* C7: multiHandler.WithAttrs / WithGroup return a new multiHandler with as many
\* back ends in the same order, the i-th being the result of the same call on the
\* original's i-th back end, and leave the original's list of back ends as it was.
C7_WithForksEach ==
    mcall.op \in {"WithAttrs", "WithGroup"} =>
        LET old == multis[mcall.m].handlers
            new == multis[mcall.ret].handlers
        IN /\ mcall.ret # mcall.m
           /\ Len(new) = Len(mcall.before)
           /\ \A i \in DOMAIN new :
                 /\ backends[new[i]].parent = mcall.before[i]
                 /\ backends[new[i]].op = mcall.op
                 /\ backends[new[i]].arg = mcall.arg
           /\ old = mcall.before

\* C7's case: a multiHandler with two back ends was forked by WithGroup
C7_Witness ==
    /\ mcall.op = "WithGroup"
    /\ Len(mcall.before) = 2
    /\ Len(multis[mcall.ret].handlers) = 2

----------------------------------------------------------------------------
(* The level registry: levelSet guarded by levelMux. *)

\* what the model registers, looks up and parses
RegNames == {<<>>, <<"x">>, SLevelInfo}
RegLevels == {2, 12}
ParseNames == {<<"x">>, SLevelInfo, SLevelDebug, <<"n", "o">>}

\* (mutant: a missing key reads as the lowest anchor's level)
MapGetLowest(m, ls) == IF ls \in DOMAIN m THEN m[ls] ELSE LevelDebug

\* levelSet[ls] of a Go map: the zero value when the key is missing
MapGet(m, ls) == IF ls \in DOMAIN m THEN m[ls] ELSE 0

\* levelSet[ls] = ln of a Go map
MapSet(m, ls, ln) == [k \in DOMAIN m \cup {ls} |-> IF k = ls THEN ln ELSE m[k]]

\* (mutant: the lock is never waited for)
LevelMuxFreeNoWait == TRUE

\* levelMux.Lock() returns only when no thread holds levelMux
LevelMuxFree == levelMux = 0

\* RegisterLevel returns at once for the empty name
RegisterSkips(ls) == ls = <<>>

\* RegisterLevel(ls, ln) is called
RegCall(t, ls, ln) ==
    /\ lthr[t].pc \in {"idle", "done"}
    /\ lthr' = [lthr EXCEPT ![t] = [IdleLevelThread EXCEPT
                   !.pc = IF RegisterSkips(ls) THEN "done" ELSE "reg_lock",
                   !.op = "Register", !.name = ls, !.level = ln]]
    /\ UNCHANGED <<levelSet, levelMux, lastReg, handlers, arrays, mutexes, sinks, thr, backends, multis, mcall, flat, color, built, logger>>

\* levelMux.Lock() in RegisterLevel
RegLock(t) ==
    /\ lthr[t].pc = "reg_lock"
    /\ LevelMuxFree
    /\ levelMux' = t
    /\ lastReg' = MapSet(lastReg, lthr[t].name, lthr[t].level)
    /\ lthr' = [lthr EXCEPT ![t].pc = "reg_write"]
    /\ UNCHANGED <<levelSet, handlers, arrays, mutexes, sinks, thr, backends, multis, mcall, flat, color, built, logger>>

\* levelSet[ls] = ln
RegWrite(t) ==
    /\ lthr[t].pc = "reg_write"
    /\ levelSet' = MapSet(levelSet, lthr[t].name, lthr[t].level)
    /\ lthr' = [lthr EXCEPT ![t].pc = "reg_unlock"]
    /\ UNCHANGED <<levelMux, lastReg, handlers, arrays, mutexes, sinks, thr, backends, multis, mcall, flat, color, built, logger>>

\* levelMux.Unlock() in RegisterLevel, and its return
RegUnlock(t) ==
    /\ lthr[t].pc = "reg_unlock"
    /\ levelMux' = 0
    /\ lthr' = [lthr EXCEPT ![t].pc = "done"]
    /\ UNCHANGED <<levelSet, lastReg, handlers, arrays, mutexes, sinks, thr, backends, multis, mcall, flat, color, built, logger>>

\* ParseLevel(ls) is called
ParseCall(t, ls) ==
    /\ lthr[t].pc \in {"idle", "done"}
    /\ lthr' = [lthr EXCEPT ![t] = [IdleLevelThread EXCEPT !.pc = "parse_lock",
                                      !.op = "Parse", !.name = ls]]
    /\ UNCHANGED <<levelSet, levelMux, lastReg, handlers, arrays, mutexes, sinks, thr, backends, multis, mcall, flat, color, built, logger>>

\* levelMux.Lock() in ParseLevel
ParseLock(t) ==
    /\ lthr[t].pc = "parse_lock"
    /\ LevelMuxFree
    /\ levelMux' = t
    /\ lthr' = [lthr EXCEPT ![t].pc = "parse_read"]
    /\ UNCHANGED <<levelSet, lastReg, handlers, arrays, mutexes, sinks, thr, backends, multis, mcall, flat, color, built, logger>>

\* return levelSet[ls]: the result is read
ParseRead(t) ==
    /\ lthr[t].pc = "parse_read"
    /\ lthr' = [lthr EXCEPT ![t].pc = "parse_unlock", ![t].val = MapGet(levelSet, lthr[t].name)]
    /\ UNCHANGED <<levelSet, levelMux, lastReg, handlers, arrays, mutexes, sinks, thr, backends, multis, mcall, flat, color, built, logger>>

\* the deferred levelMux.Unlock(), and ParseLevel's return to its caller: the
\* program, or SLevel.Level
ParseUnlock(t) ==
    /\ lthr[t].pc = "parse_unlock"
    /\ levelMux' = 0
    /\ lthr' = [lthr EXCEPT ![t].pc = IF lthr[t].op = "Level" THEN "level_ret" ELSE "done",
                             ![t].ret = lthr[t].val]
    /\ UNCHANGED <<levelSet, lastReg, handlers, arrays, mutexes, sinks, thr, backends, multis, mcall, flat, color, built, logger>>

NextLevel ==
    \/ \E t \in 1..NLevelThreads, ls \in RegNames, ln \in RegLevels : RegCall(t, ls, ln)
    \/ \E t \in 1..NLevelThreads : RegLock(t)
    \/ \E t \in 1..NLevelThreads : RegWrite(t)
    \/ \E t \in 1..NLevelThreads : RegUnlock(t)
    \/ \E t \in 1..NLevelThreads, ls \in ParseNames : ParseCall(t, ls)
    \/ \E t \in 1..NLevelThreads : ParseLock(t)
    \/ \E t \in 1..NLevelThreads : ParseRead(t)
    \/ \E t \in 1..NLevelThreads : ParseUnlock(t)

SpecLevel == Init /\ [][NextLevel]_vars

----------------------------------------------------------------------------
(* SLevel.Level: a level string "name+offset". *)

DigitVal(c) == (CHOOSE i \in 1..Len(Digits) : Digits[i] = c) - 1

IsDigits(s) == \A i \in 1..Len(s) : \E j \in 1..Len(Digits) : Digits[j] = s[i]

RECURSIVE DigitsVal(_)
DigitsVal(s) == IF s = <<>> THEN 0
                ELSE 10 * DigitsVal(SubSeq(s, 1, Len(s) - 1)) + DigitVal(s[Len(s)])

\* strconv.Atoi with its error dropped: an optional sign then digits; 0 on a
\* syntax error. (Strings too long for an int are not among the inputs.)
Atoi(s) ==
    LET signed == s /= <<>> /\ s[1] \in {"+", "-"}
        body == IF signed THEN Tail(s) ELSE s
    IN IF body = <<>> \/ ~IsDigits(body) THEN 0
       ELSE IF signed /\ s[1] = "-" THEN 0 - DigitsVal(body) ELSE DigitsVal(body)

\* (mutant: the name is trimmed but its case is kept)
SLevelKindCased(part) == TrimSpace(part)

\* kind := strings.ToLower(strings.TrimSpace(parts[0]))
SLevelKind(part) == ToLower(TrimSpace(part))

\* the level strings the model parses
LevelNameInputs == {<<>>, SLevelInfo, <<"I","N","F","O">>, <<" ","I","n","f","o"," ">>,
                    <<" ","X">>, <<"X">>, <<"b","o","g","u","s">>}
\* the names the parsing goroutine registers: those of RegNames and one in upper case
ParseRegNames == RegNames \cup {<<"X">>}
OffsetInputs == {0, 2, -4}
BadOffsets == {<<>>, <<"x">>, <<"1","+","1">>, <<"2","x">>}
PaddedOffsets == {<<" ","2"," ">>, <<"+","2">>}
LevelStrings ==
    LevelNameInputs
    \cup {n \o <<"+">> \o Itoa(k) : n \in LevelNameInputs, k \in OffsetInputs}
    \cup {n \o <<"+">> \o b : n \in LevelNameInputs, b \in BadOffsets \cup PaddedOffsets}

\* SLevel(l).Level() is called: it splits l and calls ParseLevel(kind)
LevelCall(t, l) ==
    /\ lthr[t].pc \in {"idle", "done"}
    /\ lthr' = [lthr EXCEPT ![t] = [IdleLevelThread EXCEPT !.pc = "parse_lock", !.op = "Level",
                                      !.str = l, !.name = SLevelKind(SplitN2(l)[1])]]
    /\ UNCHANGED <<levelSet, levelMux, lastReg, handlers, arrays, mutexes, sinks, thr, backends, multis, mcall, flat, color, built, logger>>

\* SLevel.Level after ParseLevel returned: the level, plus the offset if the
\* string had a '+'
LevelReturn(t) ==
    /\ lthr[t].pc = "level_ret"
    /\ LET parts == SplitN2(lthr[t].str)
           level == lthr[t].ret
       IN lthr' = [lthr EXCEPT ![t].pc = "done",
                                ![t].ret = IF Len(parts) /= 2 THEN level
                                           ELSE level + Atoi(TrimSpace(parts[2]))]
    /\ UNCHANGED <<levelSet, levelMux, lastReg, handlers, arrays, mutexes, sinks, thr, backends, multis, mcall, flat, color, built, logger>>

\* one goroutine registering names and parsing level strings
NextParse ==
    \/ \E ls \in ParseRegNames, ln \in RegLevels : RegCall(1, ls, ln)
    \/ RegLock(1)
    \/ RegWrite(1)
    \/ RegUnlock(1)
    \/ \E l \in LevelStrings : LevelCall(1, l)
    \/ ParseLock(1)
    \/ ParseRead(1)
    \/ ParseUnlock(1)
    \/ LevelReturn(1)

SpecParse == Init /\ [][NextParse]_vars

\* C8: a done SLevel.Level call on n, n+"+"+k or n+"+"+(a non-integer) returned
\* the level registered for lowercase(trim(n)) plus k (plus 0 when there is no
\* integer offset); the text after the first '+' is the offset, whatever it holds
C8_LevelParsing ==
    \A t \in 1..NLevelThreads :
        (lthr[t].pc = "done" /\ lthr[t].op = "Level") =>
            \A n \in LevelNameInputs :
                LET resolved == MapGet(levelSet, ToLower(TrimSpace(n)))
                IN /\ lthr[t].str = n => lthr[t].ret = resolved
                   /\ \A k \in OffsetInputs :
                        lthr[t].str = n \o <<"+">> \o Itoa(k) => lthr[t].ret = resolved + k
                   /\ \A b \in BadOffsets :
                        lthr[t].str = n \o <<"+">> \o b => lthr[t].ret = resolved

\* " X+-4" parsed after x was registered as 12
C8_Witness ==
    /\ lthr[1].pc = "done"
    /\ lthr[1].op = "Level"
    /\ lthr[1].str = <<" ", "X", "+", "-", "4">>
    /\ MapGet(levelSet, <<"x">>) = 12
    /\ lthr[1].ret = 8

----------------------------------------------------------------------------
(* The registry's contract. *)

\* the built-in anchors
Anchors == {SLevelDebug, SLevelInfo, SLevelWarn, SLevelError}

\* the level of the lowest built-in anchor
LowestAnchorLevel ==
    CHOOSE v \in {InitLevelSet[a] : a \in Anchors} : \A a \in Anchors : v <= InitLevelSet[a]

\* a ParseLevel call that returned, for a name the registry still does not hold
ParsedUnregistered(t) ==
    /\ lthr[t].pc = "done"
    /\ lthr[t].op = "Parse"
    /\ lthr[t].name \notin DOMAIN levelSet

\* C9 as stated: ParseLevel of a name never registered returns the zero value,
\* and that value is the level of the lowest built-in anchor
C9_ZeroIsLowestAnchor ==
    \A t \in 1..NLevelThreads :
        ParsedUnregistered(t) => lthr[t].ret = 0 /\ lthr[t].ret = LowestAnchorLevel

\* C9 amended: ParseLevel of a name never registered returns the zero value,
\* which is the level of the built-in anchor info and lies above the lowest
\* anchor, debug
C9_ZeroIsInfo ==
    \A t \in 1..NLevelThreads :
        ParsedUnregistered(t) =>
            /\ lthr[t].ret = 0
            /\ lthr[t].ret = InitLevelSet[SLevelInfo]
            /\ lthr[t].ret > LowestAnchorLevel
            /\ LowestAnchorLevel = InitLevelSet[SLevelDebug]

\* "no" was looked up and is in the registry neither before nor after
C9_Witness ==
    /\ ParsedUnregistered(1)
    /\ lthr[1].name = <<"n", "o">>
    /\ lthr[1].ret = 0
    /\ <<"x">> \in DOMAIN levelSet

\* the map the registry must hold once every RegisterLevel call that took
\* levelMux has finished: the anchors, overridden by the latest calls
Registered == [n \in DOMAIN InitLevelSet \cup DOMAIN lastReg |->
                  IF n \in DOMAIN lastReg THEN lastReg[n] ELSE InitLevelSet[n]]

----------------------------------------------------------------------------
(* Names registered at run time. *)

\* a name with letter case and surrounding whitespace ignored
FoldName(n) == ToLower(TrimSpace(n))

\* the names registered at run time, once the registering calls have returned
RuntimeNames == {n \in DOMAIN levelSet : n \in DOMAIN lastReg}

\* C11: a done SLevel(m).Level() call, m without '+', returned the level v of
\* RegisterLevel(n, v) for the registered name n that equals m when letter case
\* and surrounding whitespace are ignored (n being the only such registered name)
C11_NamesFolded ==
    (lthr[1].pc = "done" /\ lthr[1].op = "Level" /\ Len(SplitN2(lthr[1].str)) = 1) =>
        \A n \in RuntimeNames :
            (/\ FoldName(n) = FoldName(lthr[1].str)
             /\ \A n2 \in DOMAIN levelSet : FoldName(n2) = FoldName(n) => n2 = n)
                => lthr[1].ret = levelSet[n]

----------------------------------------------------------------------------
(* The record's own attributes in the line Handle writes. *)

IsSuffix(s, t) == Len(s) <= Len(t) /\ SubSeq(t, Len(t) - Len(s) + 1, Len(t)) = s

\* " g1.….gn.k=value" for a scalar attribute under the group stack, " k=value"
\* under the empty stack
QualifiedSegment(groups, a) ==
    <<" ">> \o (IF groups = <<>> THEN <<>> ELSE Join(groups, <<".">>) \o <<".">>)
            \o a.key \o <<"=">>
            \o (IF needsQuoting(a.val.str) THEN Quote(a.val.str) ELSE a.val.str)

\* C12: the line a Handle call has assembled on an uncoloured handler ends with
\* the record's attributes, each qualified by the handler's group stack, and
\* the line terminator
C12_RecordAttrsQualified ==
    \A t \in DOMAIN thr :
        (thr[t].pc # "idle" /\ handlers[thr[t].h].disableColor) =>
            LET h == handlers[thr[t].h]
                as == thr[t].rec.attrs
            IN IsSuffix(Concat([i \in 1..Len(as) |-> QualifiedSegment(h.groups, as[i])])
                          \o <<NL>>, thr[t].line)

----------------------------------------------------------------------------
(* addAttrs on attribute trees. *)

\* nesting depth of the groups in the trees the model flattens
MaxDepth == 2

EmptyKeyLeaf == Attr(<<>>, StringValue(<<"1">>))
MsgLeaf == Attr(MessageKey, StringValue(<<"2", " ", "3">>))
LazyLeaf == Attr(<<"v">>, LogValuerValue(StringValue(<<"1">>)))
LazyGroup == Attr(<<"w">>, LogValuerValue(GroupValue(<<AttrX>>)))

\* the attributes without children, the leaves put next to a sibling, and the
\* keys of the groups
BaseNodes == {AttrA, AttrB, EmptyKeyLeaf, MsgLeaf, LazyLeaf, LazyGroup}
SiblingLeaves == {AttrA}
TreeGroupKeys == {<<"n">>, <<>>}

RECURSIVE Nodes(_)
RECURSIVE ChildLists(_)
\* attribute lists of nesting depth at most d: empty, one attribute, or an
\* attribute with a leaf before or after it
ChildLists(d) ==
    {<<>>} \cup {<<x>> : x \in Nodes(d)}
           \cup {<<l, x>> : l \in SiblingLeaves, x \in Nodes(d)}
           \cup {<<x, l>> : l \in SiblingLeaves, x \in Nodes(d)}

Nodes(d) ==
    IF d = 0 THEN BaseNodes
    ELSE BaseNodes \cup {Attr(k, GroupValue(c)) : k \in TreeGroupKeys, c \in ChildLists(d - 1)}

AttrTrees == ChildLists(MaxDepth)

\* the group stacks addAttrs is called with: nil by Handle, h.groups by WithAttrs
FlatStacks == {<<>>, <<<<"g">>>>}

\* frames of addAttrs the goroutine's stack holds before the runtime ends the
\* program with a stack overflow
MaxStack == 6

\* the two revisions of addAttrs in the repository, and the attribute list each
\* hands to its recursive call for a group: the group's children as
\* (h.addAttrs(buf, g2, as)), or the list being iterated (h.addAttrs(buf, g2, attrs))
Revisions == {"part_005", "handler.go"}
groupCallArg(rev, attrs, as) == IF rev = "handler.go" THEN attrs ELSE as

\* the attribute addAttrs goes on with after the hook and Resolve
afterHook(h, groups, a0) ==
    LET a1 == IF h.replaceAttr # "none" /\ Kind(a0.val) # "Group"
              THEN ReplaceAttr(h.replaceAttr, groups, [a0 EXCEPT !.val = Resolve(a0.val)])
              ELSE a0
    IN [a1 EXCEPT !.val = Resolve(a1.val)]

RECURSIVE addAttrsFrames(_, _, _, _, _, _)
\* the call structure of addAttrs in revision rev: the frame at the given depth
\* iterates attrs and is at the elements rest; the result is the deepest frame
\* reached, MaxStack + 1 when the stack overflowed
addAttrsFrames(rev, h, groups, attrs, rest, depth) ==
    IF depth > MaxStack THEN MaxStack + 1
    ELSE IF rest = <<>> THEN depth
    ELSE LET a == afterHook(h, groups, Head(rest))
             inner == IF a.key # <<>> /\ Kind(a.val) = "Group" /\ Len(a.val.group) > 0
                      THEN LET arg == groupCallArg(rev, attrs, a.val.group)
                           IN addAttrsFrames(rev, h, appendGroup(groups, a.key), arg, arg,
                                             depth + 1)
                      ELSE depth
         IN IF inner > MaxStack THEN inner
            ELSE Max(inner, addAttrsFrames(rev, h, groups, attrs, Tail(rest), depth))

\* addAttrs(&buf, groups, attrs) on an empty buffer, for a handler with the given
\* ReplaceAttr hook: the bytes written and the hook invocations made by the
\* revision of part_005, and the frames each revision stacks
AddAttrsCall(fn, groups, attrs) ==
    /\ flat.op = "none"
    /\ LET h == newLogHandler(2, 0, [replaceAttr |-> fn, addSource |-> FALSE,
                                     disableColor |-> TRUE])
       IN flat' = [op |-> "addAttrs", fn |-> fn, groups |-> groups, attrs |-> attrs,
                   out |-> Concat(addAttrs(h, groups, attrs)),
                   calls |-> replaceAttrCalls(h, groups, attrs),
                   frames |-> [rev \in Revisions |->
                                  addAttrsFrames(rev, h, groups, attrs, attrs, 1)]]
    /\ UNCHANGED <<handlers, arrays, mutexes, sinks, thr, backends, multis, mcall, levelSet, levelMux, lastReg, lthr, color, built, logger>>

\* one addAttrs call on one tree
NextFlat ==
    /\ flat.op = "none"
    /\ \E fn \in ReplaceAttrFns, groups \in FlatStacks, attrs \in AttrTrees :
          AddAttrsCall(fn, groups, attrs)

SpecFlat == Init /\ [][NextFlat]_vars

RECURSIVE ExpectedFlat(_, _)
\* one segment per leaf with a non-empty key, depth first, siblings in order,
\* each under the keys of its enclosing groups; nothing for an empty group
ExpectedFlat(path, attrs) ==
    IF attrs = <<>> THEN <<>>
    ELSE LET a == Head(attrs)
             this == IF a.val.kind = "Group"
                     THEN ExpectedFlat(path \o (IF a.key = <<>> THEN <<>> ELSE <<a.key>>),
                                       a.val.group)
                     ELSE IF a.key = <<>> THEN <<>>
                     ELSE QualifiedSegment(path, a)
         IN this \o ExpectedFlat(path, Tail(attrs))

RECURSIVE PlainTree(_)
\* no key is one of level, time, msg, and every group has a key
PlainTree(attrs) ==
    \A i \in 1..Len(attrs) :
        /\ attrs[i].key \notin {LevelKey, TimeKey, MessageKey}
        /\ attrs[i].val.kind = "Group" => (attrs[i].key # <<>> /\ PlainTree(attrs[i].val.group))

C14_EmptyKeyGroupInlined ==
    (/\ flat.op = "addAttrs"
     /\ flat.fn = "none"
     /\ Len(flat.attrs) = 1
     /\ flat.attrs[1].key = <<>>
     /\ flat.attrs[1].val.kind = "Group"
     /\ Len(flat.attrs[1].val.group) > 0
     /\ PlainTree(flat.attrs[1].val.group))
        => flat.out = ExpectedFlat(flat.groups, flat.attrs[1].val.group)

----------------------------------------------------------------------------
(* The default fields of a line. *)

IsPrefix(s, t) == Len(s) <= Len(t) /\ SubSeq(t, 1, Len(s)) = s

Contains(s, t) == \E i \in 0..(Len(t) - Len(s)) : SubSeq(t, i + 1, i + Len(s)) = s

\* the level label of a record as handler h writes it, its bracketed time, and
\* its message
LevelLabel(h, r) ==
    LET label == LevelString(r.level)
    IN IF h.disableColor THEN label
       ELSE getColorPrefix(label) \o label \o getColorSuffix(label)
BracketedTime(r) == <<"[">> \o r.time \o <<"T">> \o r.time \o <<"]">>
SpacedMessage(r) == <<" ">> \o r.msg

----------------------------------------------------------------------------
(* The ReplaceAttr hook. *)

\* C16: no invocation of the ReplaceAttr hook that addAttrs makes is given an
\* attribute whose resolved value is a group
C16_HookNeverGivenGroup ==
    flat.op = "addAttrs" =>
        \A i \in 1..Len(flat.calls) : Resolve(flat.calls[i].a.val).kind # "Group"

----------------------------------------------------------------------------
(* convertToColorKey on key=value streams and on arbitrary bytes. *)

\* tokens in a stream, and bytes in an arbitrary input
MaxTokens == 3
MaxBytes == 5

\* the colour pair of an INFO record
InfoPrefix == getColorPrefix(<<"I","N","F","O">>)
InfoSuffix == getColorSuffix(<<"I","N","F","O">>)

\* values as the flattener writes them: unquoted without a space (one holding
\* '='), and strconv.Quote of "1 2", of the empty string, of a string ending in
\* a backslash and of a string holding a newline and a quote
TokenValues == {<<"1">>, <<"1", "=", "2">>, Quote(<<"1", " ", "2">>), Quote(<<>>),
                Quote(<<"x", BackslashCh>>), Quote(<<"1", NL, QuoteCh, "2">>)}
TokenKeys == <<<<"a">>, <<"b">>, <<"c">>, <<"d">>>>

\* the streams: for each number of tokens, the keys a, b, ... with any values
ValueLists == UNION {[1..n -> TokenValues] : n \in 1..MaxTokens}
TokenStream(vals) == Join([i \in 1..Len(vals) |-> TokenKeys[i] \o <<"=">> \o vals[i]], <<" ">>)

\* arbitrary input bytes
ByteAlphabet == {"a", "=", QuoteCh, " ", BackslashCh}
ByteStrings == UNION {[1..n -> ByteAlphabet] : n \in 0..MaxBytes}

\* convertToColorKey(b, prefix, suffix) on b; vals are the values of the tokens
\* b was built from, if it was
ConvertCall(b, vals) ==
    /\ color.op = "none"
    /\ LET r == convertRun(b, InfoPrefix, InfoSuffix)
       IN color' = [op |-> "convert", b |-> b, vals |-> vals, out |-> r.out,
                    panic |-> r.panic, stuck |-> r.stuck, iters |-> r.iters]
    /\ UNCHANGED <<handlers, arrays, mutexes, sinks, thr, backends, multis, mcall, levelSet, levelMux, lastReg, lthr, flat, built, logger>>

\* one convertToColorKey call, on a stream of tokens or on arbitrary bytes
NextColor ==
    /\ color.op = "none"
    /\ \/ \E vals \in ValueLists : ConvertCall(TokenStream(vals), vals)
       \/ \E b \in ByteStrings : ConvertCall(b, <<>>)

SpecColor == Init /\ [][NextColor]_vars

\* the stream with every key wrapped once and every value as it was
WrappedStream(vals) ==
    Join([i \in 1..Len(vals) |-> InfoPrefix \o TokenKeys[i] \o InfoSuffix \o <<"=">> \o vals[i]],
         <<" ">>)

\* C17: for a stream of key=value tokens the output is the stream with each key
\* wrapped in prefix and suffix, and nothing else changed
C17_EveryKeyWrapped ==
    (color.op = "convert" /\ color.vals # <<>>) => color.out = WrappedStream(color.vals)


RECURSIVE StripColor(_)
\* the bytes left when every whole copy of the prefix and of the suffix is deleted
StripColor(s) ==
    IF s = <<>> THEN <<>>
    ELSE IF IsPrefix(InfoPrefix, s) THEN StripColor(SubSeq(s, Len(InfoPrefix) + 1, Len(s)))
    ELSE IF IsPrefix(InfoSuffix, s) THEN StripColor(SubSeq(s, Len(InfoSuffix) + 1, Len(s)))
    ELSE <<Head(s)>> \o StripColor(Tail(s))

\* C18: whatever the input, the output with the whole copies of prefix and
\* suffix deleted is the input, byte for byte
C18_ValuePreserving ==
    color.op = "convert" => StripColor(color.out) = color.b

\* "=a a=": an empty key and a trailing '='
C18_Witness ==
    /\ color.op = "convert"
    /\ color.b = <<"=", "a", " ", "a", "=">>
    /\ color.out = InfoPrefix \o InfoSuffix \o <<"=", "a", " ">>
                     \o InfoPrefix \o <<"a">> \o InfoSuffix \o <<"=">>

\* the bytes after the first '=' start with a quote that no quote+space closes
UnclosedQuote(b) ==
    LET i == IndexByteFrom(b, "=", 1)
    IN /\ i > 0
       /\ i < Len(b)
       /\ b[i + 1] = QuoteCh
       /\ \A j \in (i + 2)..(Len(b) - 1) : ~(b[j] = QuoteCh /\ b[j + 1] = " ")

\* C19: convertToColorKey ends without a slice index out of range, every
\* iteration of its loops consuming input; the empty input and an input without
\* '=' come back unchanged, and after a quote that is never closed the rest of
\* the input is copied as it is
C19_NoPanic ==
    color.op = "convert" =>
        /\ ~color.panic
        /\ ~color.stuck
        /\ color.iters <= Len(color.b)
        /\ IndexByteFrom(color.b, "=", 1) = 0 => color.out = color.b
        /\ UnclosedQuote(color.b) =>
              LET i == IndexByteFrom(color.b, "=", 1)
              IN color.out = InfoPrefix \o SubSeq(color.b, 1, i - 1) \o InfoSuffix
                               \o SubSeq(color.b, i, Len(color.b))

\* `a="a=`: the opening quote is never closed
C19_Witness ==
    /\ color.op = "convert"
    /\ color.b = <<"a", "=", QuoteCh, "a", "=">>
    /\ UnclosedQuote(color.b)
    /\ ~color.panic
    /\ color.out = InfoPrefix \o <<"a">> \o InfoSuffix \o <<"=", QuoteCh, "a", "=">>

----------------------------------------------------------------------------
(* One line per Write. *)

\* C20: the bytes of every Write call a sink has received hold exactly one line
\* terminator, and it is their last byte
C20_OneLinePerWrite ==
    \A w \in DOMAIN sinks : \A i \in DOMAIN sinks[w].calls :
        LET data == sinks[w].calls[i].data
        IN /\ Len(data) > 0
           /\ data[Len(data)] = NL
           /\ \A j \in 1..(Len(data) - 1) : data[j] # NL

----------------------------------------------------------------------------
(* New: the Logger built from a Config and options. *)

\* options given to one New call
MaxOpts == 2

\* the sinks: os.Stdout, a writer of the caller's, the writer Config.Writer() builds
StdoutSink == 1
CallerSink == 2
ConfigSink == 3

\* Config: Format, Source, Colorful and Level
Formats == {<<>>, <<"J","s","o","n">>, <<"t","e","x","t">>}
ConfigLevels == {<<>>, SLevelError}
Configs == [format : Formats, source : BOOLEAN, colorful : BOOLEAN, level : ConfigLevels]

\* SLevel.Level on registry m, run with no other goroutine in the registry
slevelLevel(m, l) ==
    LET parts == SplitN2(l)
        level == MapGet(m, SLevelKind(parts[1]))
    IN IF Len(parts) /= 2 THEN level ELSE level + Atoi(TrimSpace(parts[2]))

\* Config.HandlerOptions
HandlerOptionsOf(cfg) ==
    [addSource |-> cfg.source, level |-> slevelLevel(levelSet, cfg.level),
     replaceAttr |-> "none"]

\* the options New's type switch tells apart
WriterOpt(w) == [type |-> "Writer", w |-> w]
OptionsOpt(o) == [type |-> "HandlerOptions", isNil |-> FALSE, opts |-> o]
NilOptionsOpt == [type |-> "HandlerOptions", isNil |-> TRUE]
ReplaceAttrOpt(fn) == [type |-> "ReplaceAttr", fn |-> fn]
LevelerOpt(l) == [type |-> "Leveler", level |-> l]
HandlerOpt(h) == [type |-> "Handler", h |-> h]

\* the options the model draws: the caller's writer, a nil and a non-nil
\* *HandlerOptions, the README's hook, a Leveler, the default logger's handler
NewOptions ==
    {WriterOpt(CallerSink), NilOptionsOpt,
     OptionsOpt([addSource |-> TRUE, level |-> LevelWarn, replaceAttr |-> "none"]),
     ReplaceAttrOpt("removeTime"), LevelerOpt(LevelDebug), HandlerOpt(1)}

RECURSIVE OptLists(_)
OptLists(n) == IF n = 0 THEN {<<>>}
               ELSE OptLists(n - 1)
                    \cup {Append(os, o) : os \in OptLists(n - 1), o \in NewOptions}

RECURSIVE newOptions(_, _)
\* the loop of New over opts: what handler, writer and handlerOpts hold after it
newOptions(st, opts) ==
    IF opts = <<>> THEN st
    ELSE LET v == Head(opts)
             nx == IF v.type = "Writer" THEN [st EXCEPT !.writer = v.w]
                   ELSE IF v.type = "HandlerOptions"
                   THEN (IF ~v.isNil THEN [st EXCEPT !.handlerOpts = v.opts] ELSE st)
                   ELSE IF v.type = "ReplaceAttr"
                   THEN [st EXCEPT !.handlerOpts.replaceAttr = v.fn]
                   ELSE IF v.type = "Leveler" THEN [st EXCEPT !.handlerOpts.level = v.level]
                   ELSE [st EXCEPT !.handler = v.h]
         IN newOptions(nx, Tail(opts))

\* writer = cfg.Writer(), when no Handler was given
newWriter(writer) == ConfigSink

\* the disableColor argument New gives NewLogHandler
newDisableColor(cfg) == cfg.colorful

\* logHandler.Enabled with the handler's minimum level
logHandlerEnabled(minLevel, level) == level >= minLevel

\* New(cfg, opts...): the Logger's handler is the one given, or one New makes on
\* the Config's writer: a slog JSON or text handler, or a logHandler in the heap
New(cfg, opts) ==
    /\ NoThreadInHandle
    /\ LET st == newOptions([handler |-> 0, writer |-> 0,
                             handlerOpts |-> HandlerOptionsOf(cfg)], opts)
           writer == newWriter(st.writer)
           format == ToLower(cfg.format)
       IN IF st.handler # 0
          THEN /\ built' = [op |-> "New", cfg |-> cfg, opts |-> opts, kind |-> "given",
                            h |-> st.handler, w |-> handlers[st.handler].w,
                            level |-> LevelInfo]
               /\ UNCHANGED <<handlers, mutexes>>
          ELSE IF format \in {<<"j","s","o","n">>, <<"t","e","x","t">>}
          THEN /\ built' = [op |-> "New", cfg |-> cfg, opts |-> opts,
                            kind |-> IF format = <<"j","s","o","n">> THEN "json" ELSE "text",
                            h |-> 0, w |-> writer, level |-> st.handlerOpts.level]
               /\ UNCHANGED <<handlers, mutexes>>
          ELSE /\ handlers' = Append(handlers,
                      newLogHandler(writer, Len(mutexes) + 1,
                                    [replaceAttr |-> st.handlerOpts.replaceAttr,
                                     addSource |-> st.handlerOpts.addSource,
                                     disableColor |-> newDisableColor(cfg)]))
               /\ mutexes' = Append(mutexes, 0)
               /\ built' = [op |-> "New", cfg |-> cfg, opts |-> opts, kind |-> "log",
                            h |-> Len(handlers) + 1, w |-> writer,
                            level |-> st.handlerOpts.level]
    /\ UNCHANGED <<arrays, sinks, thr, backends, multis, mcall, levelSet, levelMux, lastReg, lthr, flat, color, logger>>

\* the Logger New returned logs record r: Logger.log asks Enabled and calls Handle
BuiltLog(t, r) ==
    /\ built.op = "New"
    /\ built.h # 0
    /\ logHandlerEnabled(built.level, r.level)
    /\ HandleCall(t, built.h, r)

\* one goroutine calls New once and logs once through the Logger it got
NextNew ==
    \/ built.op = "none" /\ \E cfg \in Configs, opts \in OptLists(MaxOpts) : New(cfg, opts)
    \/ \E r \in Records : BuiltLog(1, r)
    \/ HandleLock(1)
    \/ WriteBegin(1)
    \/ \E err \in WriteErrors \cup {Nil} : WriteEnd(1, err)
    \/ HandleReturn(1)

SpecNew == Init /\ [][NextNew]_vars

HasOpt(opts, type) == \E i \in DOMAIN opts : opts[i].type = type

\* the writer of the last io.Writer option
LastWriter(opts) ==
    LET i == CHOOSE i \in DOMAIN opts :
                 opts[i].type = "Writer"
                 /\ \A j \in DOMAIN opts : opts[j].type = "Writer" => j <= i
    IN opts[i].w

\* C21: when New was given an io.Writer and no Handler, the handler of the Logger
\* it returns writes to that writer, and a line logged through the Logger is
\* received by that writer and not by the writer built from the Config.
C21_WriterOptionUsed ==
    (built.op = "New" /\ HasOpt(built.opts, "Writer") /\ ~HasOpt(built.opts, "Handler")) =>
        /\ built.w = LastWriter(built.opts)
        /\ (thr[1].h = built.h /\ thr[1].pc \in {"writing", "unlock", "done"}) =>
              /\ \E i \in DOMAIN sinks[LastWriter(built.opts)].calls :
                    sinks[LastWriter(built.opts)].calls[i].data = thr[1].line
              /\ sinks[ConfigSink].calls = <<>>

\* C22: a line logged through the default handler New built carries ANSI colour
\* codes when Config.Colorful is true and carries none when it is false.
C22_ColorfulColours ==
    (built.op = "New" /\ built.kind = "log" /\ thr[1].h = built.h /\ thr[1].pc # "idle") =>
        (Contains(<<ESC>>, thr[1].line) <=> built.cfg.colorful)

----------------------------------------------------------------------------
(* The lock of the registry. *)

\* thread t is between levelMux.Lock() and levelMux.Unlock() of a lookup
InLookup(t) == lthr[t].pc \in {"parse_read", "parse_unlock"}

\* thread t is between levelMux.Lock() and levelMux.Unlock() of a registration
InRegistration(t) == lthr[t].pc \in {"reg_write", "reg_unlock"}

\* thread t has called ParseLevel and waits in levelMux.Lock() for another thread
LookupBlockedBy(t, u) == lthr[t].pc = "parse_lock" /\ levelMux = u /\ u # t

----------------------------------------------------------------------------
(* Termination of the flattening. *)

RECURSIVE NestingDepth(_)
\* the nesting depth of an attribute tree: 0 for a list without groups
NestingDepth(attrs) ==
    LET depths == {IF Kind(Resolve(attrs[i].val)) = "Group"
                   THEN 1 + NestingDepth(Resolve(attrs[i].val).group)
                   ELSE 0 : i \in DOMAIN attrs}
    IN IF depths = {} THEN 0 ELSE CHOOSE d \in depths : \A e \in depths : e <= d

\* the frames revision rev stacked in the last call are within the stack and at
\* most one more than the nesting depth of the tree
FramesBounded(rev) ==
    /\ flat.frames[rev] <= MaxStack
    /\ flat.frames[rev] <= 1 + NestingDepth(flat.attrs)

\* C24: addAttrs returns on every finite attribute tree: a group's recursive call
\* runs over the group's own children, so the frames it stacks are at most one
\* more than the nesting depth of the tree, in either revision of addAttrs.
C24_FlatteningTerminates ==
    flat.op = "addAttrs" => \A rev \in Revisions : FramesBounded(rev)

----------------------------------------------------------------------------
(* Logger: the facade over a Handler (a back end or a multiHandler). *)

\* back ends made before the Logger, and logging calls made through it
MaxLogBackends == 2
MaxLogCalls == 2

\* the methods that end in Logger.log and in Logger.logAttrs
LogMethods == {"log", "logAttrs"}

\* NewLogger(h) over back end h or over multiHandler h
NewLogger(kind, h) ==
    /\ logger.kind = "none"
    /\ logger' = [NoLogger EXCEPT !.kind = kind, !.h = h]
    /\ UNCHANGED <<handlers, arrays, mutexes, sinks, thr, backends, multis, mcall, levelSet, levelMux, lastReg, lthr, flat, color, built>>

\* l.Handler().Enabled(ctx, level)
handlerEnabled(kind, h, level) ==
    IF kind = "multi" THEN multiEnabled(multis[h].handlers, level).ret
    ELSE BackendEnabled(h, level)

\* (mutant: a multiHandler hands the record only to the back ends that are
\* enabled at the record's level)
handlerHandleEnabledOnly(kind, h, r, res) ==
    LET hs == IF kind = "multi" THEN multis[h].handlers ELSE <<h>>
        on == {i \in DOMAIN hs : BackendEnabled(hs[i], r.level)}
        RECURSIVE pick(_)
        pick(i) == IF i > Len(hs) THEN <<>>
                   ELSE (IF i \in on THEN <<i>> ELSE <<>>) \o pick(i + 1)
        idx == pick(1)
    IN multiHandle([j \in DOMAIN idx |-> hs[idx[j]]], [j \in DOMAIN idx |-> res[idx[j]]])

\* l.Handler().Handle(ctx, r), where res holds what each back end returns
handlerHandle(kind, h, r, res) ==
    IF kind = "multi" THEN multiHandle(multis[h].handlers, res)
    ELSE [called |-> <<[b |-> h, err |-> res[1]]>>,
          ret |-> [isNil |-> res[1] = Nil,
                   errs |-> IF res[1] = Nil THEN <<>> ELSE <<res[1]>>]]

\* the back ends under the Logger's handler, in order
handlerBackends(kind, h) == IF kind = "multi" THEN multis[h].handlers ELSE <<h>>

\* (mutant: the record is built and handled whatever Enabled answered)
logNeverReturnsEarly(enabled) == FALSE

\* if !l.EnabledCtx(ctx, level) { return }
logReturnsEarly(enabled) == ~enabled

\* Logger.log / Logger.logAttrs up to the Handle call: Enabled is asked, and the
\* method returns if the answer is false
LogCall(method, level) ==
    /\ logger.kind # "none"
    /\ logger.pc = "idle"
    /\ logger.calls < MaxLogCalls
    /\ LET enabled == handlerEnabled(logger.kind, logger.h, level)
           asked == [op |-> "Enabled", method |-> method, level |-> level,
                     ret |-> enabled, called |-> <<>>]
       IN logger' = [logger EXCEPT
                        !.pc = IF logReturnsEarly(enabled) THEN "idle" ELSE "handle",
                        !.level = level,
                        !.calls = @ + 1,
                        !.trace = <<asked>>]
    /\ UNCHANGED <<handlers, arrays, mutexes, sinks, thr, backends, multis, mcall, levelSet, levelMux, lastReg, lthr, flat, color, built>>

\* _ = l.Handler().Handle(ctx, r) and the return: the error is dropped
LogHandle(res) ==
    /\ logger.pc = "handle"
    /\ LET r == [RecordPlain EXCEPT !.level = logger.level]
           run == handlerHandle(logger.kind, logger.h, r, res)
           handled == [op |-> "Handle", method |-> logger.trace[1].method,
                       level |-> logger.level, ret |-> run.ret.isNil,
                       called |-> run.called]
       IN logger' = [logger EXCEPT !.pc = "idle", !.trace = Append(@, handled),
                                   !.failures = IF run.ret.isNil THEN @ ELSE @ + 1]
    /\ UNCHANGED <<handlers, arrays, mutexes, sinks, thr, backends, multis, mcall, levelSet, levelMux, lastReg, lthr, flat, color, built>>

\* what the back ends under the Logger's handler may return from Handle
HandleResults(hs) ==
    {res \in [DOMAIN hs -> {Nil} \cup {BackendError(b) : b \in DOMAIN backends}] :
        \A i \in DOMAIN res : res[i] \in {Nil, BackendError(hs[i])}}

\* back ends are made, wrapped in a multiHandler or taken alone by NewLogger, and
\* the Logger is logged through
NextLogger ==
    \/ \E l \in BackendLevels : Len(backends) < MaxLogBackends /\ NewBackend(l)
    \/ \E n \in 0..MaxFan : n <= Len(backends) /\ NewMultiHandler([i \in 1..n |-> i])
    \/ \E b \in DOMAIN backends : NewLogger("backend", b)
    \/ \E m \in DOMAIN multis : NewLogger("multi", m)
    \/ \E method \in LogMethods, l \in AskedLevels : LogCall(method, l)
    \/ /\ logger.pc = "handle"
       /\ \E res \in HandleResults(handlerBackends(logger.kind, logger.h)) : LogHandle(res)

SpecLogger == Init /\ [][NextLogger]_vars

\* the calls of the current logging call are Enabled, then Handle at most once
EnabledThenHandle ==
    logger.trace # <<>> =>
        /\ logger.trace[1].op = "Enabled"
        /\ logger.trace[1].ret = handlerEnabled(logger.kind, logger.h, logger.level)
        /\ Len(logger.trace) <= 2
        /\ \A i \in 2..Len(logger.trace) :
              /\ logger.trace[i].op = "Handle"
              /\ logger.trace[i].level = logger.trace[1].level
              /\ logger.trace[i].method = logger.trace[1].method
              /\ logger.trace[i].called # <<>>

\* C25: in every logging call Enabled is asked first; Handle is called once, after
\* it and at the same level, when the answer was true, and is not called when it
\* was false; a call, failed or not, leaves the Logger over the same handler and
\* ready for the next call.
C25_EnabledGatesHandle ==
    /\ [](logger.kind # "none" =>
            /\ EnabledThenHandle
            /\ (logger.pc = "idle" /\ logger.trace # <<>>) =>
                  Len(logger.trace) = IF logger.trace[1].ret THEN 2 ELSE 1
            /\ logger.pc = "handle" => (Len(logger.trace) = 1 /\ logger.trace[1].ret)
            /\ logger.pc \in {"idle", "handle"}
            /\ logger.failures <= logger.calls)
    /\ [][logger.kind # "none" =>
            /\ logger'.kind = logger.kind
            /\ logger'.h = logger.h
            /\ logger'.calls \in {logger.calls, logger.calls + 1}
            /\ ((logger.pc = "handle" /\ logger' # logger) =>
                   (logger'.pc = "idle" /\ Len(logger'.trace) = 2))]_vars

\* the first call's Handle failed; the second call was made after it, was handled
\* and returned nil
C25_Witness ==
    /\ logger.kind = "backend"
    /\ logger.calls = 2
    /\ logger.failures = 1
    /\ logger.pc = "idle"
    /\ Len(logger.trace) = 2
    /\ logger.trace[2].ret
    /\ logger.trace[2].level = LevelError

----------------------------------------------------------------------------
(* A Logger over a multiHandler. *)

\* the back ends Handle was called on in the current logging call, in order
HandledBackends ==
    IF Len(logger.trace) < 2 THEN <<>>
    ELSE [i \in DOMAIN logger.trace[2].called |-> logger.trace[2].called[i].b]

\* C27: when a logging call at level L through a Logger over a multiHandler has
\* returned and at least one wrapped back end is enabled at L, Handle was called
\* on every wrapped back end, in order, those not enabled at L included.
C27_DisabledBackEndsHandled ==
    (/\ logger.kind = "multi"
     /\ logger.pc = "idle"
     /\ logger.trace # <<>>
     /\ \E i \in DOMAIN multis[logger.h].handlers :
           BackendEnabled(multis[logger.h].handlers[i], logger.level))
    => HandledBackends = multis[logger.h].handlers

\* a record at info went to both back ends of a multiHandler, the second of which
\* is enabled from error only
C27_Witness ==
    /\ logger.kind = "multi"
    /\ logger.pc = "idle"
    /\ logger.level = LevelInfo
    /\ Len(backends) = 2
    /\ backends[1].minLevel = LevelInfo
    /\ backends[2].minLevel = LevelError
    /\ ~BackendEnabled(2, logger.level)
    /\ HandledBackends = <<1, 2>>

----------------------------------------------------------------------------
(* Groups and accumulated attributes along a derivation chain. *)

RECURSIVE ChainGroups(_, _)
\* the names given to the WithGroup calls on the derivation chain of handler c of
\* heap hs, in call order
ChainGroups(hs, c) ==
    IF hs[c].parent = 0 THEN <<>>
    ELSE ChainGroups(hs, hs[c].parent)
         \o (IF hs[c].op = "group" THEN <<hs[c].arg>> ELSE <<>>)

\* handlers are made and forked, and nothing is logged
NextFork ==
    \/ \E cfg \in HandlerConfigs : NewLogHandler(MaxHandlers, 2, cfg)
    \/ \E p \in DOMAIN handlers, name \in GroupNames : WithGroup(MaxHandlers, p, name)
    \/ \E p \in DOMAIN handlers, attrs \in AttrLists : WithAttrs(MaxHandlers, p, attrs)

SpecFork == Init /\ [][NextFork]_vars

\* C26: the handler a WithAttrs call returns holds the bytes of the handler it
\* was called on, followed by one segment per attribute, qualified by exactly the
\* names of the WithGroup calls before it on its derivation chain, in call order
\* and joined with '.'; the handler a WithGroup call returns holds the bytes of
\* the handler it was called on, unchanged, and no bytes of any handler change.
C26_AttrsQualifiedByEarlierGroups ==
    [][LET c == Len(handlers')
       IN (c = Len(handlers) + 1 /\ handlers'[c].op \in {"attrs", "group"}) =>
            LET p == handlers'[c].parent
            IN IF handlers'[c].op = "attrs"
               THEN AttrBytes(handlers', arrays', c)
                      = AttrBytes(handlers, arrays, p)
                          \o ExpectedFlat(ChainGroups(handlers', c), handlers'[c].arg)
               ELSE /\ AttrBytes(handlers', arrays', c) = AttrBytes(handlers, arrays, p)
                    /\ \A h \in DOMAIN handlers :
                          AttrBytes(handlers', arrays', h) = AttrBytes(handlers, arrays, h)]_vars

\* root.WithAttrs(a=1).WithGroup(g).WithAttrs(b="2 3", n{x=0}) holds
\* ` a=1 g.b="2 3" g.n.x=0`
C26_Witness ==
    \E c \in DOMAIN handlers :
        /\ handlers[c].op = "attrs"
        /\ handlers[handlers[c].parent].op = "group"
        /\ handlers[handlers[handlers[c].parent].parent].op = "attrs"
        /\ ChainGroups(handlers, c) = <<<<"g">>>>
        /\ AttrBytes(handlers, arrays, c)
             = <<" ","a","=","1"," ","g",".","b","=",QuoteCh,"2"," ","3",QuoteCh,
                 " ","g",".","n",".","x","=","0">>

----------------------------------------------------------------------------
(* Handle and the handler's own state. *)

\* thread t is inside Handle: it has been called and has not returned
InHandle(t) == thr[t].pc \notin {"idle", "done"}

\* C28: no step of a Handle call changes a handler or a backing array of an
\* attribute buffer, whatever the other goroutines are doing; and two Handle calls
\* that are under way together on the same handler with equal records have
\* assembled byte-identical lines.
C28_HandleReadOnly ==
    /\ [][thr' # thr => (handlers' = handlers /\ arrays' = arrays)]_vars
    /\ [](\A t, u \in 1..NThreads :
            (InHandle(t) /\ InHandle(u) /\ thr[t].h = thr[u].h /\ thr[t].rec = thr[u].rec)
            => thr[t].line = thr[u].line)

\* goroutine 1 is writing the line of a record logged through a fork that holds
\* accumulated attributes, and goroutine 2, which logs the same record through
\* the same fork, waits for the mutex with the same line
C28_Witness ==
    /\ thr[1].pc = "writing"
    /\ thr[2].pc = "lock"
    /\ thr[1].h = thr[2].h
    /\ handlers[thr[1].h].len > 0
    /\ thr[1].rec = thr[2].rec
    /\ thr[1].line = thr[2].line

====
